---- MODULE Spec2Model ----
(***************************************************************************)
(* MiniHive: relational-algebra optimizer (raopt.py) and the compiler of   *)
(* RA trees into luigi map/reduce tasks (ra2mr.py).                        *)
(*                                                                         *)
(* Data representation                                                     *)
(*   scalar expression  [k |-> "attr", rel, name]   radb.ast.AttrRef       *)
(*                      [k |-> "num", val]          radb.ast.RANumber      *)
(*                      [k |-> "str", val]          radb.ast.RAString      *)
(*                      [k |-> "binop", op, l, r]   radb.ast.ValExprBinaryOp*)
(*   a literal's raw text val is [q, body]: the text q \o body \o q, q the  *)
(*   quote character or "" when the text is not quoted.                    *)
(*   RA node            [kind |-> "RelRef", rel], [kind |-> "Select", cond, *)
(*                      input], [kind |-> "Project", attrs, input],        *)
(*                      [kind |-> "Rename", relname, attrnames, input],    *)
(*                      [kind |-> "Cross", left, right],                   *)
(*                      [kind |-> "Join", left, cond, right],              *)
(*                      [kind |-> "ChainedOp", operations, input]          *)
(*   Python value       <<"int", n>>, <<"str", s>>, <<"bool", b>>,         *)
(*                      <<"none", 0>> (None), <<"raise", 0>> (an exception *)
(*                      propagating out of the evaluation)                 *)
(*   tuple (dict)       a sequence of <<key, value>> in insertion order,   *)
(*                      key = <<rel, name>> for the string "rel.name" and  *)
(*                      <<"", name>> for the unqualified string "name"     *)
(*   record (line)      [rel |-> relation label, tup |-> tuple]            *)
(***************************************************************************)
EXTENDS Integers, Sequences, FiniteSets, TLC

VARIABLES
    pc,         \* phase of the run under way
    task,       \* the task being executed: its kind and querystring (RA tree)
    pending,    \* input lines of the task not yet given to its mapper
    touched,    \* ChainedTask._touched of the mapper instance
    shuffle,    \* (key, value) pairs emitted by the mapper, in emission order
    reduced,    \* the reducer calls made: task kind, key, values, records emitted
    out,        \* records written by the task, in emission order
    unfused,    \* the unfused operator pipeline: ops left to run, current lines
    dag,        \* task DAG expanded so far by following requires()
    ran,        \* paths of the tasks whose map/reduce job has been executed
    err,        \* the exceptions raised while compiling the query
    tree,       \* the RA tree handed to the optimizer
    result,     \* the tree returned by the optimizer rule
    infile,     \* the lines of the input file(s) of the task being executed
    applied,    \* names of the optimizer rules applied to tree so far
    argtree,    \* the tree object last handed to a rule, as the call left it
    firstrun    \* the output of the task's first execution, once it is executed again

vars == <<pc, task, pending, touched, shuffle, reduced, out, unfused,
          dag, ran, err, tree, result, infile, applied, argtree,
          firstrun>>

-----------------------------------------------------------------------------
(* Generic helpers                                                         *)

NoRel == ""

NoneV == <<"none", 0>>

RaiseV == <<"raise", 0>>

IntV(n) == <<"int", n>>

StrV(s) == <<"str", s>>

BoolV(b) == <<"bool", b>>

Range(s) == {s[i] : i \in 1..Len(s)}

RECURSIVE SeqOfSet(_)
\* some enumeration of a finite set (used where only membership matters)
SeqOfSet(S) ==
    IF S = {} THEN <<>>
    ELSE LET x == CHOOSE y \in S : TRUE IN <<x>> \o SeqOfSet(S \ {x})

RECURSIVE Flatten(_)
Flatten(ss) == IF ss = <<>> THEN <<>> ELSE ss[1] \o Flatten(Tail(ss))

\* every string the model uses, in ASCII (Python str) order
AsciiOrder ==
    <<"", "1", "10", "2", "20", "5", "Ana", "Bob", "D", "Dept", "E", "Emp", "F", "None", "P",
      "Person",
      "__empty__", "__touch__", "did", "id", "joined", "name", "pid", "result">>

StrRank(s) == CHOOSE i \in 1..Len(AsciiOrder) : AsciiOrder[i] = s

StrLess(a, b) == StrRank(a) < StrRank(b)

Attr(rel, name) == [k |-> "attr", rel |-> rel, name |-> name]

Num(body) == [k |-> "num", val |-> [q |-> "", body |-> body]]

Str(body) == [k |-> "str", val |-> [q |-> "'", body |-> body]]

BinOp(l, op, r) == [k |-> "binop", op |-> op, l |-> l, r |-> r]

\* str(AttrRef): "rel.name", or "name" when rel is None; as a dict key
AttrKey(a) == <<a.rel, a.name>>

RelRef(rel) == [kind |-> "RelRef", rel |-> rel]

Select(cond, input) == [kind |-> "Select", cond |-> cond, input |-> input]

Project(attrs, input) == [kind |-> "Project", attrs |-> attrs, input |-> input]

Rename(relname, attrnames, input) ==
    [kind |-> "Rename", relname |-> relname, attrnames |-> attrnames,
     input |-> input]

Cross(left, right) == [kind |-> "Cross", left |-> left, right |-> right]

Join(left, cond, right) ==
    [kind |-> "Join", left |-> left, cond |-> cond, right |-> right]

ChainedOp(operations, input) ==
    [kind |-> "ChainedOp", operations |-> operations, input |-> input]

-----------------------------------------------------------------------------
(* Python dicts and JSON                                                   *)

DictKeys(d) == {d[i][1] : i \in 1..Len(d)}

DictHas(d, key) == \E i \in 1..Len(d) : d[i][1] = key

DictGet(d, key) == d[CHOOSE i \in 1..Len(d) : d[i][1] = key][2]

\* d[key] = v: an existing key keeps its position, a new key is appended
DictSet(d, key, v) ==
    IF DictHas(d, key)
    THEN [i \in 1..Len(d) |-> IF d[i][1] = key THEN <<key, v>> ELSE d[i]]
    ELSE Append(d, <<key, v>>)

\* {**l, **r}
RECURSIVE DictMerge(_, _)
DictMerge(l, r) ==
    IF r = <<>> THEN l
    ELSE DictMerge(DictSet(l, r[1][1], r[1][2]), Tail(r))

\* the dict as a mapping, without its order (Python dict equality)
DictAsSet(d) == Range(d)

\* order of the key strings "rel.name" / "name": '.' sorts before letters
KeyLess(a, b) ==
    LET ha == IF a[1] = NoRel THEN a[2] ELSE a[1]
        hb == IF b[1] = NoRel THEN b[2] ELSE b[1]
    IN  IF ha # hb THEN StrLess(ha, hb)
        ELSE IF (a[1] = NoRel) # (b[1] = NoRel) THEN a[1] = NoRel
        ELSE a[1] # NoRel /\ StrLess(a[2], b[2])

RECURSIVE SortKeys(_)
\* json.dumps(d, sort_keys=True), read back by json.loads: keys in sorted order
SortKeys(d) ==
    IF d = <<>> THEN <<>>
    ELSE LET i == CHOOSE j \in 1..Len(d) :
                      \A m \in 1..Len(d) : m = j \/ ~KeyLess(d[m][1], d[j][1])
         IN  <<d[i]>> \o SortKeys(SubSeq(d, 1, i - 1) \o SubSeq(d, i + 1, Len(d)))

-----------------------------------------------------------------------------
(* Scalar evaluator                                                        *)

MaxNum == 20

RECURSIVE IntToText(_)
\* str(n) of a non-negative int
IntToText(n) ==
    LET digit == <<"0", "1", "2", "3", "4", "5", "6", "7", "8", "9">>
    IN  IF n < 10 THEN digit[n + 1]
        ELSE IntToText(n \div 10) \o digit[(n % 10) + 1]

\* str(v) of a value
PyStr(v) == IF v[1] = "int" THEN IntToText(v[2]) ELSE v[2]

\* first value whose key has the column suffix suf, else None
SuffixLookup(tup, suf) ==
    IF \E i \in 1..Len(tup) : tup[i][1][2] = suf
    THEN tup[CHOOSE i \in 1..Len(tup) :
                 /\ tup[i][1][2] = suf
                 /\ \A j \in 1..(i - 1) : tup[j][1][2] # suf][2]
    ELSE NoneV

\* AttrRef branch of atom_value, and JoinTask.mapper.lookup
lookup(attrref, tup) ==
    IF DictHas(tup, AttrKey(attrref)) THEN DictGet(tup, AttrKey(attrref))
    ELSE SuffixLookup(tup, attrref.name)

\* int(v) of a number's text, the raw text when it does not parse
ParseNumber(body) ==
    IF \E n \in 0..MaxNum : IntToText(n) = body
    THEN IntV(CHOOSE n \in 0..MaxNum : IntToText(n) = body)
    ELSE StrV(body)

atom_value(x, tup) ==
    IF x.k = "attr" THEN lookup(x, tup)
    ELSE IF x.val.q \in {"'", "\""} THEN StrV(x.val.body)
    ELSE IF x.k = "num" THEN ParseNumber(x.val.body)
    ELSE StrV(x.val.body)

Truthy(v) ==
    CASE v[1] = "none" -> FALSE
      [] v[1] = "bool" -> v[2]
      [] v[1] = "int" -> v[2] # 0
      [] v[1] = "str" -> v[2] # ""
      [] OTHER -> FALSE

IsNumeric(v) == v[1] \in {"int", "bool"}

NumOf(v) == IF v[1] = "bool" THEN (IF v[2] THEN 1 ELSE 0) ELSE v[2]

\* Python ==
PyEq(a, b) ==
    IF IsNumeric(a) /\ IsNumeric(b) THEN NumOf(a) = NumOf(b)
    ELSE a[1] = b[1] /\ a[2] = b[2]

\* Python <: a TypeError between values that have no order
PyLt(a, b) ==
    IF IsNumeric(a) /\ IsNumeric(b) THEN BoolV(NumOf(a) < NumOf(b))
    ELSE IF a[1] = "str" /\ b[1] = "str" THEN BoolV(StrLess(a[2], b[2]))
    ELSE RaiseV

PyLe(a, b) ==
    IF PyLt(a, b) = RaiseV THEN RaiseV
    ELSE BoolV(PyLt(a, b)[2] \/ PyEq(a, b))

RECURSIVE eval_cond(_, _)
eval_cond(c, tup) ==
    IF c.k = "binop"
    THEN LET l == eval_cond(c.l, tup)
             r == eval_cond(c.r, tup)
         IN  IF l = RaiseV \/ r = RaiseV THEN RaiseV
             ELSE CASE c.op = "EQ" -> BoolV(PyEq(l, r))
                    [] c.op = "NE" -> BoolV(~PyEq(l, r))
                    [] c.op = "LT" -> PyLt(l, r)
                    [] c.op = "LE" -> PyLe(l, r)
                    [] c.op = "GT" -> PyLt(r, l)
                    [] c.op = "GE" -> PyLe(r, l)
                    [] c.op = "AND" -> IF Truthy(l) THEN r ELSE l
                    [] c.op = "OR" -> IF Truthy(l) THEN l ELSE r
                    [] OTHER -> BoolV(FALSE)
    ELSE atom_value(c, tup)

-----------------------------------------------------------------------------
(* Chain folder and the serialized querystring                             *)

Reverse(s) == [i \in 1..Len(s) |-> s[Len(s) + 1 - i]]

IsRowOp(t) == t.kind \in {"Select", "Project", "Rename"}

\* the (kind, params) entry try_fold_chain records for a row-wise node
OpOf(t) ==
    CASE t.kind = "Select" -> <<"select", t.cond>>
      [] t.kind = "Project" -> <<"project", t.attrs>>
      [] t.kind = "Rename" -> <<"rename", <<t.relname, t.attrnames>>>>

\* node.inputs
inputs(node) ==
    CASE node.kind \in {"Cross", "Join"} -> <<node.left, node.right>>
      [] node.kind = "RelRef" -> <<>>
      [] OTHER -> <<node.input>>

RECURSIVE CollectOps(_)
\* the while loop of try_fold_chain: operations outer -> inner
CollectOps(t) == IF IsRowOp(t) THEN <<OpOf(t)>> \o CollectOps(t.input) ELSE <<>>

RECURSIVE ChainTerminal(_)
\* the node the while loop of try_fold_chain stops at
ChainTerminal(t) == IF IsRowOp(t) THEN ChainTerminal(t.input) ELSE t

RECURSIVE try_fold_chain(_)
try_fold_chain(raquery) ==
    IF Len(CollectOps(raquery)) >= 2
    THEN ChainedOp(Reverse(CollectOps(raquery)), ChainTerminal(raquery))
    ELSE CASE raquery.kind = "Select" ->
                Select(raquery.cond, try_fold_chain(raquery.input))
           [] raquery.kind = "Project" ->
                Project(raquery.attrs, try_fold_chain(raquery.input))
           [] raquery.kind = "Rename" ->
                Rename(raquery.relname, raquery.attrnames,
                       try_fold_chain(raquery.input))
           [] raquery.kind = "Join" ->
                Join(try_fold_chain(raquery.left), raquery.cond,
                     try_fold_chain(raquery.right))
           [] OTHER -> raquery

\* the plain node an operation of a ChainedOp is rendered as
NodeOfOp(op, input) ==
    CASE op[1] = "select" -> Select(op[2], input)
      [] op[1] = "project" -> Project(op[2], input)
      [] op[1] = "rename" -> Rename(op[2][1], op[2][2], input)

RECURSIVE WrapOps(_, _)
\* operations (inner -> outer) as prefix operators around input
WrapOps(operations, input) ==
    IF operations = <<>> THEN input
    ELSE WrapOps(Tail(operations), NodeOfOp(operations[1], input))

\* tokens of RA text: parentheses, a relation name, a prefix operator with
\* its argument, a binary operator (the join with its condition)
ParenL == [t |-> "("]

ParenR == [t |-> ")"]

\* str(None), the text an f-string renders None as
NoneText == "None"

\* the argument text \rename_{...} gets from ChainedOp.__str__: the alias is
\* rendered with an f-string, so an absent alias reads as the name None
RenameArg(params) ==
    <<IF params[1] = NoRel THEN NoneText ELSE params[1], params[2]>>

\* the prefix operator ChainedOp.__str__ appends for one operation
OpText(op) ==
    CASE op[1] = "select" -> [t |-> "select", arg |-> op[2]]
      [] op[1] = "project" -> [t |-> "project", arg |-> op[2]]
      [] op[1] = "rename" -> [t |-> "rename", arg |-> RenameArg(op[2])]

RECURSIVE str(_)
\* the text of an input of a plain node, in parentheses unless it is a
\* relation name
paren(node) ==
    IF node.kind = "RelRef" THEN str(node) ELSE <<ParenL>> \o str(node) \o <<ParenR>>

\* ChainedOp.__str__: the operations outer -> inner as prefix operators, then
\* the text of the input, in parentheses only if it is a RelRef
ChainedOp_str(self) ==
    LET base == IF self.input.kind = "RelRef"
                THEN <<ParenL>> \o str(self.input) \o <<ParenR>>
                ELSE str(self.input)
        ops == Reverse([i \in 1..Len(self.operations) |->
                           OpText(self.operations[i])])
    IN  ops \o base

\* str(node): the text of a node as a sequence of tokens
str(node) ==
    CASE node.kind = "RelRef" -> <<[t |-> "rel", rel |-> node.rel]>>
      [] node.kind = "Select" ->
           <<[t |-> "select", arg |-> node.cond]>> \o paren(node.input)
      [] node.kind = "Project" ->
           <<[t |-> "project", arg |-> node.attrs]>> \o paren(node.input)
      [] node.kind = "Rename" ->
           <<[t |-> "rename", arg |-> <<node.relname, node.attrnames>>]>>
           \o paren(node.input)
      [] node.kind = "Cross" ->
           paren(node.left) \o <<[t |-> "cross"]>> \o paren(node.right)
      [] node.kind = "Join" ->
           paren(node.left) \o <<[t |-> "join", arg |-> node.cond]>>
           \o paren(node.right)
      [] node.kind = "ChainedOp" -> ChainedOp_str(node)

RECURSIVE ParseUnary(_)
RECURSIVE ParseBinary(_)

\* relExpr of the RA grammar: a unary expression, then binary operators
\* applied left to right; [node, rest] with the text left unread
ParseExpr(text) == ParseBinary(ParseUnary(text))

\* a parenthesized expression, a relation name, or a prefix operator applied
\* to the unary expression that follows it
ParseUnary(text) ==
    LET tok == text[1]
    IN  CASE tok.t = "(" ->
               LET inner == ParseExpr(Tail(text))
               IN  [node |-> inner.node, rest |-> Tail(inner.rest)]
          [] tok.t = "rel" -> [node |-> RelRef(tok.rel), rest |-> Tail(text)]
          [] OTHER ->
               LET inner == ParseUnary(Tail(text))
               IN  [node |-> NodeOfOp(<<tok.t, tok.arg>>, inner.node),
                    rest |-> inner.rest]

\* the binary operators that follow an expression already read
ParseBinary(read) ==
    IF read.rest = <<>> \/ read.rest[1].t \notin {"join", "cross"}
    THEN read
    ELSE LET right == ParseUnary(Tail(read.rest))
             node == IF read.rest[1].t = "join"
                     THEN Join(read.node, read.rest[1].arg, right.node)
                     ELSE Cross(read.node, right.node)
         IN  ParseBinary([node |-> node, rest |-> right.rest])

\* radb.parse.one_statement_from_string(str(t) + ";"): a querystring is held
\* as the node it was rendered from, and read back by parsing its text
one_statement_from_string(t) == ParseExpr(str(t)).node

-----------------------------------------------------------------------------
(* Operator executors: map and reduce bodies                               *)

Rec(rel, tup) == [rel |-> rel, tup |-> tup]

\* what one mapper or reducer call yields: its (key, value) pairs in order,
\* and whether it ended by raising
Yield(pairs) == [pairs |-> pairs, raised |-> FALSE]

Raised(pairs) == [pairs |-> pairs, raised |-> TRUE]

TouchKey == "__touch__"

EmptyKey == "__empty__"

RECURSIVE RenameKeys(_, _, _)
\* renamed[relname + "." + suffix] = v for every key of tup, in order
RenameKeys(tup, relname, renamed) ==
    IF tup = <<>> THEN renamed
    ELSE RenameKeys(Tail(tup), relname,
                    DictSet(renamed, <<relname, tup[1][1][2]>>, tup[1][2]))

RECURSIVE ChainProject(_, _, _)
\* the project step of ChainedTask.mapper: first key with the column suffix
ChainProject(attrs, tup, acc) ==
    IF attrs = <<>> THEN acc
    ELSE LET a_name == attrs[1].name
             hit == {i \in 1..Len(tup) : tup[i][1][2] = a_name}
         IN  IF hit = {} THEN ChainProject(Tail(attrs), tup, acc)
             ELSE LET i == CHOOSE j \in hit : \A m \in hit : j <= m
                  IN  ChainProject(Tail(attrs), tup,
                                   DictSet(acc, tup[i][1], tup[i][2]))

RECURSIVE ChainApply(_, _, _)
\* the for loop of ChainedTask.mapper over raquery.operations:
\* [st |-> "emit", rel, tup], [st |-> "drop"] or [st |-> "raise"]
ChainApply(operations, current_rel, current_tuple) ==
    IF operations = <<>>
    THEN [st |-> "emit", rel |-> current_rel, tup |-> current_tuple]
    ELSE LET op == operations[1]
         IN  CASE op[1] = "select" ->
                    LET v == eval_cond(op[2], current_tuple)
                    IN  IF v = RaiseV THEN [st |-> "raise"]
                        ELSE IF ~Truthy(v) THEN [st |-> "drop"]
                        ELSE ChainApply(Tail(operations), current_rel,
                                        current_tuple)
               [] op[1] = "project" ->
                    ChainApply(Tail(operations), current_rel,
                               ChainProject(op[2], current_tuple, <<>>))
               [] op[1] = "rename" ->
                    IF op[2][1] # NoRel
                    THEN ChainApply(Tail(operations), op[2][1],
                                    RenameKeys(current_tuple, op[2][1], <<>>))
                    ELSE ChainApply(Tail(operations), current_rel,
                                    current_tuple)

ChainedTask_mapper(querystring, is_touched, line) ==
    LET raquery == try_fold_chain(one_statement_from_string(querystring))
        touch == IF is_touched THEN <<>> ELSE <<<<TouchKey, NoneV>>>>
        r == ChainApply(raquery.operations, line.rel, line.tup)
    IN  CASE raquery.kind # "ChainedOp" ->
               \* raquery.operations raises AttributeError
               Raised(touch)
          [] r.st = "raise" -> Raised(touch)
          [] r.st = "drop" -> Yield(touch)
          [] r.st = "emit" -> Yield(touch \o <<<<r.rel, SortKeys(r.tup)>>>>)

RECURSIVE Dedup(_, _)
\* the seen-set loop of ChainedTask.reducer: first occurrences, in order
Dedup(values, seen) ==
    IF values = <<>> THEN <<>>
    ELSE IF values[1] \in seen THEN Dedup(Tail(values), seen)
    ELSE <<values[1]>> \o Dedup(Tail(values), seen \cup {values[1]})

\* mutant: the reducer without its seen set
ChainedTask_reducer_NoSeen(key, values) ==
    IF key = TouchKey THEN Yield(<<>>)
    ELSE Yield([i \in 1..Len(values) |-> <<key, values[i]>>])

\* mutation of ChainedTask.reducer: only the value that arrives first is
\* emitted
ChainedTask_reducer_FirstOnly(key, values) ==
    IF key = TouchKey THEN Yield(<<>>)
    ELSE IF values # <<>> THEN Yield(<<<<key, values[1]>>>>)
    ELSE Yield(<<<<EmptyKey, <<>>>>>>)

ChainedTask_reducer(key, values) ==
    IF key = TouchKey THEN Yield(<<>>)
    ELSE IF Dedup(values, {}) # <<>>
    THEN Yield([i \in 1..Len(Dedup(values, {})) |-> <<key, Dedup(values, {})[i]>>])
    ELSE Yield(<<<<EmptyKey, <<>>>>>>)

SelectTask_mapper(querystring, line) ==
    LET condition == one_statement_from_string(querystring).cond
        v == eval_cond(condition, line.tup)
    IN  IF v = RaiseV THEN Raised(<<>>)
        ELSE IF Truthy(v) THEN Yield(<<<<line.rel, line.tup>>>>)
        ELSE Yield(<<>>)

RenameTask_mapper(querystring, line) ==
    LET new_name == one_statement_from_string(querystring).relname
    IN  IF new_name = NoRel
        THEN \* None + "." raises TypeError at the first key
             IF line.tup # <<>> THEN Raised(<<>>)
             ELSE Yield(<<<<NoneText, <<>>>>>>)
        ELSE Yield(<<<<new_name, RenameKeys(line.tup, new_name, <<>>)>>>>)

RECURSIVE ProjectAttrs(_, _, _)
\* the for loop of ProjectTask.mapper: exact key, else first key by suffix
ProjectAttrs(attrs, tup, acc) ==
    IF attrs = <<>> THEN acc
    ELSE IF DictHas(tup, AttrKey(attrs[1]))
    THEN ProjectAttrs(Tail(attrs), tup,
                      DictSet(acc, AttrKey(attrs[1]),
                              DictGet(tup, AttrKey(attrs[1]))))
    ELSE ProjectAttrs(Tail(attrs), tup, ChainProject(<<attrs[1]>>, tup, acc))

ProjectTask_mapper(querystring, line) ==
    LET attrs == one_statement_from_string(querystring).attrs
    IN  Yield(<<<<SortKeys(ProjectAttrs(attrs, line.tup, <<>>)), NoneV>>>>)

\* the relation prefix of the first qualified key of the tuple, else "result"
ProjectTask_reducer(key, values) ==
    LET dotted == {i \in 1..Len(key) : key[i][1][1] # NoRel}
        rel == IF dotted = {} THEN "result"
               ELSE key[CHOOSE i \in dotted : \A m \in dotted : i <= m][1][1]
    IN  Yield(<<<<rel, key>>>>)

RECURSIVE collect_eq_pairs(_)
\* the top-level attribute = attribute conjuncts of a join condition
collect_eq_pairs(c) ==
    IF c.k = "binop"
    THEN IF c.op = "EQ" /\ c.l.k = "attr" /\ c.r.k = "attr" THEN <<<<c.l, c.r>>>>
         ELSE IF c.op = "AND" THEN collect_eq_pairs(c.l) \o collect_eq_pairs(c.r)
         ELSE <<>>
    ELSE <<>>

RECURSIVE JoinKeyVals(_, _)
\* the vals list of JoinTask.mapper
JoinKeyVals(pairs, tup) ==
    IF pairs = <<>> THEN <<>>
    ELSE LET v1 == lookup(pairs[1][1], tup)
             v == IF v1 = NoneV THEN lookup(pairs[1][2], tup) ELSE v1
         IN  (IF v # NoneV THEN <<PyStr(v)>> ELSE <<>>)
                 \o JoinKeyVals(Tail(pairs), tup)

\* the shuffle key of a line: a one-element list stands for the bare string
\* vals[0], a longer one for the JSON text of the list
JoinTask_mapper(querystring, line) ==
    LET condition == one_statement_from_string(querystring).cond
        vals == JoinKeyVals(collect_eq_pairs(condition), line.tup)
    IN  IF vals # <<>> THEN Yield(<<<<vals, <<line.rel, line.tup>>>>>>)
        ELSE Yield(<<>>)

RECURSIVE rels(_)
\* JoinTask.reducer.rels: relation names and aliases below a node
rels(node) ==
    CASE node.kind = "RelRef" -> {node.rel}
      [] node.kind = "Rename" -> {node.relname}
      [] node.kind \in {"Select", "Project", "ChainedOp"} -> rels(node.input)
      [] node.kind \in {"Cross", "Join"} -> rels(node.left) \cup rels(node.right)

\* the relation prefixes of a tuple's qualified keys
KeyPrefixes(tup) == {tup[i][1][1] : i \in {j \in 1..Len(tup) : tup[j][1][1] # NoRel}}

RECURSIVE Classify(_, _, _, _)
\* the classification loop of JoinTask.reducer: <<left_t, right_t>>
Classify(values, left_r, right_r, acc) ==
    IF values = <<>> THEN acc
    ELSE LET rel == values[1][1]
             tup == values[1][2]
             next ==
                 IF rel \in left_r THEN <<Append(acc[1], tup), acc[2]>>
                 ELSE IF rel \in right_r THEN <<acc[1], Append(acc[2], tup)>>
                 ELSE << IF KeyPrefixes(tup) \cap left_r # {}
                         THEN Append(acc[1], tup) ELSE acc[1],
                         IF KeyPrefixes(tup) \cap right_r # {}
                         THEN Append(acc[2], tup) ELSE acc[2] >>
         IN  Classify(Tail(values), left_r, right_r, next)

\* the values next(iter(left_r), "joined") can return: a set has no order
OutRels(left_r) == IF left_r = {} THEN {"joined"} ELSE left_r

RECURSIVE JoinEmit(_, _, _, _, _)
\* the nested loop of JoinTask.reducer over left_t x right_t, pairs in order
JoinEmit(cands, cond, out_rel, seen, acc) ==
    IF cands = <<>> THEN Yield(acc)
    ELSE LET merged == DictMerge(cands[1][1], cands[1][2])
             v == eval_cond(cond, merged)
             s == SortKeys(merged)
         IN  IF v = RaiseV THEN Raised(acc)
             ELSE IF Truthy(v) /\ s \notin seen
             THEN JoinEmit(Tail(cands), cond, out_rel, seen \cup {s},
                           Append(acc, <<out_rel, s>>))
             ELSE JoinEmit(Tail(cands), cond, out_rel, seen, acc)

JoinTask_reducer(querystring, out_rel, key, values) ==
    LET raquery == one_statement_from_string(querystring)
        lr == Classify(values, rels(raquery.left), rels(raquery.right),
                       <<<<>>, <<>>>>)
        cands == Flatten([i \in 1..Len(lr[1]) |->
                             [j \in 1..Len(lr[2]) |-> <<lr[1][i], lr[2][j]>>]])
    IN  IF lr[1] = <<>> \/ lr[2] = <<>> THEN Yield(<<>>)
        ELSE JoinEmit(cands, raquery.cond, out_rel, {}, <<>>)

-----------------------------------------------------------------------------
(* Optimizer rules                                                         *)

RECURSIVE extract_relations(_)
extract_relations(expr) ==
    CASE expr.kind = "RelRef" -> {expr.rel}
      [] expr.kind = "Rename" -> {expr.relname}
      [] expr.kind \in {"Select", "Project"} -> extract_relations(expr.input)
      [] expr.kind \in {"Cross", "Join"} ->
           extract_relations(expr.left) \cup extract_relations(expr.right)
      [] OTHER -> {}

RECURSIVE extract_condition_prefixes(_)
extract_condition_prefixes(cond) ==
    CASE cond.k = "attr" -> IF cond.rel # NoRel THEN {cond.rel} ELSE {}
      [] cond.k = "binop" ->
           extract_condition_prefixes(cond.l) \cup extract_condition_prefixes(cond.r)
      [] OTHER -> {}

RECURSIVE rule_introduce_joins(_)

\* mutation of rule_introduce_joins: the condition's prefixes are tested
\* against the left input only
rule_introduce_joins_LeftOnly(expr) ==
    CASE expr.kind = "Select" ->
           LET rewritten == rule_introduce_joins(expr.input)
               cond_prefixes == extract_condition_prefixes(expr.cond)
           IN  IF /\ rewritten.kind = "Cross"
                  /\ cond_prefixes \cap extract_relations(rewritten.left) # {}
               THEN Join(rewritten.left, expr.cond, rewritten.right)
               ELSE Select(expr.cond, rewritten)
      [] expr.kind = "Project" ->
           Project(expr.attrs, rule_introduce_joins(expr.input))
      [] expr.kind = "Rename" ->
           Rename(expr.relname, expr.attrnames, rule_introduce_joins(expr.input))
      [] expr.kind = "Cross" ->
           Cross(rule_introduce_joins(expr.left), rule_introduce_joins(expr.right))
      [] expr.kind = "Join" ->
           Join(rule_introduce_joins(expr.left), expr.cond,
                rule_introduce_joins(expr.right))
      [] OTHER -> expr

rule_introduce_joins(expr) ==
    CASE expr.kind = "Select" ->
           LET rewritten == rule_introduce_joins(expr.input)
               cond_prefixes == extract_condition_prefixes(expr.cond)
           IN  IF /\ rewritten.kind = "Cross"
                  /\ cond_prefixes \cap extract_relations(rewritten.left) # {}
                  /\ cond_prefixes \cap extract_relations(rewritten.right) # {}
               THEN Join(rewritten.left, expr.cond, rewritten.right)
               ELSE Select(expr.cond, rewritten)
      [] expr.kind = "Project" ->
           Project(expr.attrs, rule_introduce_joins(expr.input))
      [] expr.kind = "Rename" ->
           Rename(expr.relname, expr.attrnames, rule_introduce_joins(expr.input))
      [] expr.kind = "Cross" ->
           Cross(rule_introduce_joins(expr.left), rule_introduce_joins(expr.right))
      [] expr.kind = "Join" ->
           Join(rule_introduce_joins(expr.left), expr.cond,
                rule_introduce_joins(expr.right))
      [] OTHER -> expr

RECURSIVE rule_break_up_selections(_)
rule_break_up_selections(expr) ==
    CASE expr.kind = "Select" ->
           LET rewritten_input == rule_break_up_selections(expr.input)
           IN  IF expr.cond.k = "binop" /\ expr.cond.op = "AND"
               THEN LET inner == Select(expr.cond.r, rewritten_input)
                        outer == Select(expr.cond.l, inner)
                    IN  rule_break_up_selections(outer)
               ELSE Select(expr.cond, rewritten_input)
      [] expr.kind = "Project" ->
           Project(expr.attrs, rule_break_up_selections(expr.input))
      [] expr.kind = "Rename" ->
           Rename(expr.relname, expr.attrnames,
                  rule_break_up_selections(expr.input))
      [] expr.kind = "Cross" ->
           Cross(rule_break_up_selections(expr.left),
                 rule_break_up_selections(expr.right))
      [] expr.kind = "Join" ->
           Join(rule_break_up_selections(expr.left), expr.cond,
                rule_break_up_selections(expr.right))
      [] OTHER -> expr

RECURSIVE extract_condition_attrs(_)
\* attribute names as keys: <<rel, name>> is the string "rel.name" and
\* <<"", name>> the string "name"; "." in name holds iff rel is not ""
extract_condition_attrs(cond) ==
    CASE cond.k = "attr" ->
           IF cond.rel # NoRel THEN {AttrKey(cond), <<NoRel, cond.name>>}
           ELSE {AttrKey(cond)}
      [] cond.k = "binop" ->
           extract_condition_attrs(cond.l) \cup extract_condition_attrs(cond.r)
      [] OTHER -> {}

\* dd.get(rel, {}): the column names of rel in the schema directory
DdGet(dd, rel) == IF rel \in DOMAIN dd THEN dd[rel] ELSE {}

RECURSIVE extract_expr_attrs(_, _)
\* relname is a string in every Rename handed to the optimizer here
extract_expr_attrs(expr, dd) ==
    CASE expr.kind = "RelRef" ->
           UNION {{<<NoRel, a>>, <<expr.rel, a>>} : a \in DdGet(dd, expr.rel)}
      [] expr.kind = "Rename" ->
           UNION {{<<NoRel, a[2]>>, <<expr.relname, a[2]>>} :
                     a \in extract_expr_attrs(expr.input, dd)}
      [] expr.kind \in {"Select", "Project"} ->
           extract_expr_attrs(expr.input, dd)
      [] expr.kind \in {"Cross", "Join"} ->
           extract_expr_attrs(expr.left, dd) \cup extract_expr_attrs(expr.right, dd)
      [] OTHER -> {}

can_push_down(cond, expr, dd) ==
    extract_condition_attrs(cond) \subseteq extract_expr_attrs(expr, dd)

is_join_condition(cond, left_attrs, right_attrs) ==
    LET cond_attrs == extract_condition_attrs(cond)
        qualified == {a \in cond_attrs : a[1] # NoRel}
        left_prefixes == {a[1] : a \in {x \in left_attrs : x[1] # NoRel}}
        right_prefixes == {a[1] : a \in {x \in right_attrs : x[1] # NoRel}}
        cond_prefixes == {a[1] : a \in qualified}
    IN  IF qualified = {}
        THEN cond_attrs \cap left_attrs # {} /\ cond_attrs \cap right_attrs # {}
        ELSE /\ cond_prefixes \cap left_prefixes # {}
             /\ cond_prefixes \cap right_prefixes # {}

RECURSIVE rule_push_down_selections(_, _)

\* mutation of PushOverCross: a condition that fits the left input is left
\* above the Cross
PushOverCross_KeepAbove(cond, child, dd) ==
    LET left == child.left
        right == child.right
        left_attrs == extract_expr_attrs(left, dd)
        right_attrs == extract_expr_attrs(right, dd)
    IN  IF is_join_condition(cond, left_attrs, right_attrs)
        THEN Select(cond, child)
        ELSE IF can_push_down(cond, left, dd)
        THEN Select(cond, child)
        ELSE IF can_push_down(cond, right, dd)
        THEN Cross(left, rule_push_down_selections(Select(cond, right), dd))
        ELSE Select(cond, child)

\* Case 1 of rule_push_down_selections: a selection over a Cross child
PushOverCross(cond, child, dd) ==
    LET left == child.left
        right == child.right
        left_attrs == extract_expr_attrs(left, dd)
        right_attrs == extract_expr_attrs(right, dd)
    IN  IF is_join_condition(cond, left_attrs, right_attrs)
        THEN Select(cond, child)
        ELSE IF can_push_down(cond, left, dd)
        THEN Cross(rule_push_down_selections(Select(cond, left), dd), right)
        ELSE IF can_push_down(cond, right, dd)
        THEN Cross(left, rule_push_down_selections(Select(cond, right), dd))
        ELSE Select(cond, child)

\* mutation of PushOverSelectCross: the inner condition is the one moved
\* into the input and the outer one stays above the Cross
PushOverSelectCross_PushInner(cond, child, dd) ==
    LET cross == child.input
        left == cross.left
        right == cross.right
        left_attrs == extract_expr_attrs(left, dd)
        right_attrs == extract_expr_attrs(right, dd)
        outer_join == is_join_condition(cond, left_attrs, right_attrs)
        inner_join == is_join_condition(child.cond, left_attrs, right_attrs)
    IN  IF ~outer_join /\ inner_join /\ can_push_down(cond, left, dd)
        THEN Select(cond,
                    Cross(rule_push_down_selections(Select(child.cond, left), dd),
                          right))
        ELSE IF ~outer_join /\ inner_join /\ can_push_down(cond, right, dd)
        THEN Select(cond,
                    Cross(left,
                          rule_push_down_selections(Select(child.cond, right), dd)))
        ELSE Select(cond, child)

\* Case 2 of rule_push_down_selections: a selection over a selection over a
\* Cross
PushOverSelectCross(cond, child, dd) ==
    LET cross == child.input
        left == cross.left
        right == cross.right
        left_attrs == extract_expr_attrs(left, dd)
        right_attrs == extract_expr_attrs(right, dd)
        outer_join == is_join_condition(cond, left_attrs, right_attrs)
        inner_join == is_join_condition(child.cond, left_attrs, right_attrs)
    IN  IF ~outer_join /\ inner_join /\ can_push_down(cond, left, dd)
        THEN Select(child.cond,
                    Cross(rule_push_down_selections(Select(cond, left), dd),
                          right))
        ELSE IF ~outer_join /\ inner_join /\ can_push_down(cond, right, dd)
        THEN Select(child.cond,
                    Cross(left,
                          rule_push_down_selections(Select(cond, right), dd)))
        ELSE Select(cond, child)

rule_push_down_selections(expr, dd) ==
    CASE expr.kind = "Select" ->
           LET child == rule_push_down_selections(expr.input, dd)
           IN  IF child.kind = "Cross"
               THEN PushOverCross(expr.cond, child, dd)
               ELSE IF child.kind = "Select" /\ child.input.kind = "Cross"
               THEN PushOverSelectCross(expr.cond, child, dd)
               ELSE Select(expr.cond, child)
      [] expr.kind = "Project" ->
           Project(expr.attrs, rule_push_down_selections(expr.input, dd))
      [] expr.kind = "Rename" ->
           Rename(expr.relname, expr.attrnames,
                  rule_push_down_selections(expr.input, dd))
      [] expr.kind = "Cross" ->
           Cross(rule_push_down_selections(expr.left, dd),
                 rule_push_down_selections(expr.right, dd))
      [] expr.kind = "Join" ->
           Join(rule_push_down_selections(expr.left, dd), expr.cond,
                rule_push_down_selections(expr.right, dd))
      [] OTHER -> expr

RECURSIVE Perms(_)
\* list(S) of a Python set S: every order in which the set can be iterated
Perms(S) ==
    IF S = {} THEN {<<>>}
    ELSE UNION {{<<x>> \o q : q \in Perms(S \ {x})} : x \in S}

\* position of x in the list l
IndexOf(l, x) == CHOOSE i \in 1..Len(l) : l[i] = x

\* two lists filtered from one iteration of the same set keep the elements
\* they share in the same relative order
SameIteration(l, r) ==
    \A x, y \in Range(l) \cap Range(r) :
        (IndexOf(l, x) < IndexOf(l, y)) <=> (IndexOf(r, x) < IndexOf(r, y))

\* to_attr_ref of rule_push_down_projections
to_attr_ref(name) == Attr(name[1], name[2])

\* the Project-over-Join step of rule_push_down_projections, inputs already
\* rewritten: the trees it can return, one per iteration order of
\* required_attrs
PruneJoinInputs(expr, dd) ==
    IF expr.kind = "Project" /\ expr.input.kind = "Join"
    THEN LET child == expr.input
             cond_attrs == extract_condition_attrs(child.cond)
             final_attrs == {AttrKey(a) : a \in Range(expr.attrs)}
             required_attrs == cond_attrs \cup final_attrs
             left_all == extract_expr_attrs(child.left, dd)
             right_all == extract_expr_attrs(child.right, dd)
             orders == {o \in Perms(required_attrs \cap left_all)
                              \X Perms(required_attrs \cap right_all) :
                          SameIteration(o[1], o[2])}
             needed(o) == [i \in 1..Len(o) |-> to_attr_ref(o[i])]
             new_left(o) == IF Len(o) < Cardinality(left_all)
                            THEN Project(needed(o), child.left)
                            ELSE child.left
             new_right(o) == IF Len(o) < Cardinality(right_all)
                             THEN Project(needed(o), child.right)
                             ELSE child.right
         IN  {Project(expr.attrs,
                      Join(new_left(o[1]), child.cond, new_right(o[2]))) :
                 o \in orders}
    ELSE {expr}

RECURSIVE rule_push_down_projections(_, _)

\* expr after `expr.inputs = [rule_push_down_projections(i, dd) ...]`: the
\* node itself, its inputs overwritten in place with what the calls on them
\* returned; one tree per iteration order met below
InputsOverwritten(expr, dd) ==
    CASE expr.kind \in {"Select", "Project", "Rename"} ->
           {[expr EXCEPT !.input = i] :
               i \in rule_push_down_projections(expr.input, dd)}
      [] expr.kind \in {"Cross", "Join"} ->
           {[expr EXCEPT !.left = l, !.right = r] :
               l \in rule_push_down_projections(expr.left, dd),
               r \in rule_push_down_projections(expr.right, dd)}
      [] OTHER -> {expr}

\* the set of trees the rule can return for expr
rule_push_down_projections(expr, dd) ==
    UNION {PruneJoinInputs(e, dd) : e \in InputsOverwritten(expr, dd)}

\* a call of rule_push_down_projections: what it leaves of the tree object
\* it was given (arg) and what it returns (ret)
rule_push_down_projections_call(expr, dd) ==
    UNION {{[arg |-> e, ret |-> r] : r \in PruneJoinInputs(e, dd)} :
              e \in InputsOverwritten(expr, dd)}

RECURSIVE SelectConds(_)
\* conditions of the vertical run of Selects starting at cur, outermost first
SelectConds(cur) ==
    IF cur.kind = "Select" THEN <<cur.cond>> \o SelectConds(cur.input) ELSE <<>>

RECURSIVE SelectBase(_)
\* the node the while loop of rule_merge_selections stops at
SelectBase(cur) == IF cur.kind = "Select" THEN SelectBase(cur.input) ELSE cur

RECURSIVE MergeConds_InnerFirst(_)
\* mutation of MergeConds: the chain is built from the innermost condition
MergeConds_InnerFirst(conditions) ==
    IF Len(conditions) = 1 THEN conditions[1]
    ELSE BinOp(MergeConds_InnerFirst(Tail(conditions)), "AND", conditions[1])

RECURSIVE MergeConds(_)
\* merged: ((c1 AND c2) AND c3) ... over the conditions, outermost first
MergeConds(conditions) ==
    IF Len(conditions) = 1 THEN conditions[1]
    ELSE BinOp(MergeConds(SubSeq(conditions, 1, Len(conditions) - 1)), "AND",
               conditions[Len(conditions)])

RECURSIVE rule_merge_selections(_)
rule_merge_selections(expr) ==
    CASE expr.kind = "Select" ->
           Select(MergeConds(SelectConds(expr)),
                  rule_merge_selections(SelectBase(expr)))
      [] expr.kind = "Project" ->
           Project(expr.attrs, rule_merge_selections(expr.input))
      [] expr.kind = "Rename" ->
           Rename(expr.relname, expr.attrnames,
                  rule_merge_selections(expr.input))
      [] expr.kind = "Cross" ->
           Cross(rule_merge_selections(expr.left),
                 rule_merge_selections(expr.right))
      [] expr.kind = "Join" ->
           Join(rule_merge_selections(expr.left), expr.cond,
                rule_merge_selections(expr.right))
      [] OTHER -> expr

-----------------------------------------------------------------------------
(* Task compiler                                                           *)

Task(kind, raquery, step, optimize) ==
    [kind |-> kind, querystring |-> raquery, step |-> step, optimize |-> optimize]

\* what task_factory returns, or the exception it raises
task_factory(raquery0, step, optimize) ==
    LET raquery == IF optimize THEN try_fold_chain(raquery0) ELSE raquery0
    IN  CASE raquery.kind = "ChainedOp" -> Task("ChainedTask", raquery, step, optimize)
          [] raquery.kind = "Select" -> Task("SelectTask", raquery, step, optimize)
          [] raquery.kind = "RelRef" ->
               [kind |-> "InputData", filename |-> raquery.rel]
          [] raquery.kind = "Join" -> Task("JoinTask", raquery, step, optimize)
          [] raquery.kind = "Project" -> Task("ProjectTask", raquery, step, optimize)
          [] raquery.kind = "Rename" -> Task("RenameTask", raquery, step, optimize)
          [] OTHER -> [kind |-> "raise", where |-> "task_factory",
                       operator |-> raquery.kind]

\* the exception count_steps raises, as the count it would have returned
CountRaise == -1

RECURSIVE count_steps(_)

\* mutation of count_steps: a ChainedOp counted once per fused operation
count_steps_PerOperation(raquery) ==
    CASE raquery.kind = "ChainedOp" ->
           IF count_steps(raquery.input) = CountRaise THEN CountRaise
           ELSE Len(raquery.operations) + count_steps(raquery.input)
      [] raquery.kind \in {"Select", "Project", "Rename"} ->
           IF count_steps(raquery.input) = CountRaise THEN CountRaise
           ELSE 1 + count_steps(raquery.input)
      [] raquery.kind = "Join" ->
           IF count_steps(raquery.left) = CountRaise
              \/ count_steps(raquery.right) = CountRaise
           THEN CountRaise
           ELSE 1 + count_steps(raquery.left) + count_steps(raquery.right)
      [] raquery.kind = "RelRef" -> 1
      [] OTHER -> CountRaise

count_steps(raquery) ==
    CASE raquery.kind \in {"ChainedOp", "Select", "Project", "Rename"} ->
           IF count_steps(raquery.input) = CountRaise THEN CountRaise
           ELSE 1 + count_steps(raquery.input)
      [] raquery.kind = "Join" ->
           IF count_steps(raquery.left) = CountRaise
              \/ count_steps(raquery.right) = CountRaise
           THEN CountRaise
           ELSE 1 + count_steps(raquery.left) + count_steps(raquery.right)
      [] raquery.kind = "RelRef" -> 1
      [] OTHER -> CountRaise

RECURSIVE FirstUncounted(_)
\* the operator kind count_steps names in its exception
FirstUncounted(raquery) ==
    CASE raquery.kind \in {"ChainedOp", "Select", "Project", "Rename"} ->
           FirstUncounted(raquery.input)
      [] raquery.kind = "Join" ->
           IF count_steps(raquery.left) = CountRaise
           THEN FirstUncounted(raquery.left) ELSE FirstUncounted(raquery.right)
      [] OTHER -> raquery.kind

IsRaise(t) == t.kind = "raise"

\* mutant: the right input numbered as if the left subtree were one task
JoinTask_requires_FixedOffset(self) ==
    LET raquery == one_statement_from_string(self.querystring)
    IN  <<task_factory(raquery.left, self.step + 1, self.optimize),
          task_factory(raquery.right, self.step + 2, self.optimize)>>

\* the list JoinTask.requires returns, or <<exception>>
JoinTask_requires(self) ==
    LET raquery == one_statement_from_string(self.querystring)
        task1 == task_factory(raquery.left, self.step + 1, self.optimize)
        n == count_steps(raquery.left)
        task2 == task_factory(raquery.right, self.step + n + 1, self.optimize)
    IN  IF IsRaise(task1) THEN <<task1>>
        ELSE IF n = CountRaise
        THEN <<[kind |-> "raise", where |-> "count_steps",
                operator |-> FirstUncounted(raquery.left)]>>
        ELSE IF IsRaise(task2) THEN <<task2>>
        ELSE <<task1, task2>>

ChainedTask_requires(self) ==
    LET raquery == try_fold_chain(one_statement_from_string(self.querystring))
    IN  <<task_factory(inputs(raquery)[1], self.step + 1, self.optimize)>>

\* SelectTask.requires, RenameTask.requires, ProjectTask.requires
UnaryTask_requires(self) ==
    LET raquery == one_statement_from_string(self.querystring)
    IN  <<task_factory(raquery.input, self.step + 1, self.optimize)>>

requires(self) ==
    CASE self.kind = "JoinTask" -> JoinTask_requires(self)
      [] self.kind = "ChainedTask" -> ChainedTask_requires(self)
      [] self.kind \in {"SelectTask", "RenameTask", "ProjectTask"} ->
           UnaryTask_requires(self)
      [] OTHER -> <<>>

-----------------------------------------------------------------------------
(* Running one job: map every input line, group by key, reduce each group  *)

\* the values of a key group, in the order the shuffle delivers them
GroupValues(pairs, key) ==
    LET idx == {i \in 1..Len(pairs) : pairs[i][1] = key}
        RECURSIVE Pick(_)
        Pick(I) == IF I = {} THEN <<>>
                   ELSE LET i == CHOOSE j \in I : \A m \in I : j <= m
                        IN  <<pairs[i][2]>> \o Pick(I \ {i})
    IN  Pick(idx)

ShuffleKeys(pairs) == {pairs[i][1] : i \in 1..Len(pairs)}

\* (key, value) pairs written as output lines "<key>\t<value>"
LinesOf(pairs) == [i \in 1..Len(pairs) |-> Rec(pairs[i][1], pairs[i][2])]

ReducerCall(kind, key, values, emits) ==
    [task |-> kind, key |-> key, values |-> values, emits |-> emits]

\* a map-only job (SelectTask, RenameTask) over the lines of its input
MapOnlyJob(node, lines) ==
    LET m(line) == IF node.kind = "Select" THEN SelectTask_mapper(node, line)
                   ELSE RenameTask_mapper(node, line)
    IN  [failed |-> \E i \in 1..Len(lines) : m(lines[i]).raised,
         lines |-> LinesOf(Flatten([i \in 1..Len(lines) |-> m(lines[i]).pairs])),
         calls |-> {}]

\* a ProjectTask job over the lines of its input
ProjectJob(node, lines) ==
    LET pairs == Flatten([i \in 1..Len(lines) |->
                             ProjectTask_mapper(node, lines[i]).pairs])
        keys == SeqOfSet(ShuffleKeys(pairs))
        emits(key) == ProjectTask_reducer(key, GroupValues(pairs, key)).pairs
    IN  [failed |-> FALSE,
         lines |-> LinesOf(Flatten([i \in 1..Len(keys) |-> emits(keys[i])])),
         calls |-> {ReducerCall("ProjectTask", keys[i],
                                GroupValues(pairs, keys[i]), emits(keys[i])) :
                    i \in 1..Len(keys)}]

-----------------------------------------------------------------------------
(* SpecChain: a ChainedTask job, then the same operators run unfused       *)

MaxChain == 2

MaxLines == 2

PersonTuple(id, name) ==
    << <<<<"Person", "id">>, IntV(id)>>, <<<<"Person", "name">>, StrV(name)>> >>

DeptTuple(id, pid) ==
    << <<<<"Dept", "id">>, IntV(id)>>, <<<<"Dept", "pid">>, IntV(pid)>> >>

JoinCond == BinOp(Attr("Person", "id"), "EQ", Attr("Dept", "pid"))

\* terminal subtrees of a chain, each with lines the terminal's own task
\* can have written
ChainTerminals ==
    { [node |-> RelRef("Person"),
       lines |-> {Rec("Person", PersonTuple(1, "Ana")),
                  Rec("Person", PersonTuple(2, "Bob")),
                  Rec("Person", PersonTuple(2, "Ana"))}],
      [node |-> Join(RelRef("Person"), JoinCond, RelRef("Dept")),
       lines |-> {Rec("Person", SortKeys(DictMerge(PersonTuple(1, "Ana"),
                                                   DeptTuple(10, 1)))),
                  Rec("Person", SortKeys(DictMerge(PersonTuple(2, "Bob"),
                                                   DeptTuple(20, 2))))}] }

\* the row-wise operations chains are built from, as (kind, params)
ChainOps ==
    { <<"select", BinOp(Attr("Person", "id"), "EQ", Num("1"))>>,
      <<"select", BinOp(Attr(NoRel, "pid"), "LT", Num("5"))>>,
      <<"project", <<Attr("Person", "id")>>>>,
      <<"project", <<Attr(NoRel, "name")>>>>,
      <<"rename", <<"P", <<"*">>>>>>,
      <<"rename", <<NoRel, <<"id", "name">>>>>> }

SeqsUpTo(S, lo, hi) == UNION {[1..n -> S] : n \in lo..hi}

RECURSIVE Subtrees(_)
\* the row-wise nodes of a vertical run, innermost first
Subtrees(t) == IF IsRowOp(t) THEN Append(Subtrees(t.input), t) ELSE <<>>

InitIdle ==
    /\ dag = {} /\ ran = {} /\ err = {}
    /\ tree = RelRef("Person") /\ result = RelRef("Person")
    /\ applied = <<>> /\ argtree = RelRef("Person")
    /\ firstrun = {}

\* a whole ChainedTask job over the lines of its input: the lines it writes,
\* and whether a mapper call raised
ChainJob(querystring, lines) ==
    LET calls == [i \in 1..Len(lines) |->
                     ChainedTask_mapper(querystring, i > 1, lines[i])]
        pairs == Flatten([i \in 1..Len(lines) |-> calls[i].pairs])
        keys == SeqOfSet(ShuffleKeys(pairs))
        emits(key) == ChainedTask_reducer(key, GroupValues(pairs, key)).pairs
    IN  [failed |-> \E i \in 1..Len(lines) : calls[i].raised,
         lines |-> LinesOf(Flatten([i \in 1..Len(keys) |-> emits(keys[i])]))]

\* the rows of relation rel that the lines of a Join's output were built from
BaseLines(rel, lines) ==
    {Rec(rel, SelectSeq(l.tup, LAMBDA kv : kv[1][1] = rel)) : l \in lines}

\* the file the ChainedTask reads: the output of the one task its requires()
\* returns, which is the input file of the terminal relation, or the job of
\* the ChainedTask the querystring reads back as
RequiredOutput(self, lines) ==
    LET dep == ChainedTask_requires(self)[1]
    IN  IF dep.kind = "ChainedTask"
        THEN ChainJob(dep.querystring,
                      SeqOfSet(BaseLines(dep.querystring.input.rel, lines)))
        ELSE [failed |-> FALSE, lines |-> SeqOfSet(lines)]

InitChain ==
    \E term \in ChainTerminals, ops \in SeqsUpTo(ChainOps, 2, MaxChain) :
      \E lines \in {L \in SUBSET term.lines : Cardinality(L) <= MaxLines} :
        /\ task = task_factory(WrapOps(ops, term.node), 1, TRUE)
        /\ ~RequiredOutput(task, lines).failed
        /\ infile = Range(RequiredOutput(task, lines).lines)
        /\ pending = infile
        /\ touched = FALSE
        /\ shuffle = <<>>
        /\ reduced = {}
        /\ out = <<>>
        /\ unfused = [todo |-> Subtrees(WrapOps(ops, term.node)),
                      lines |-> SeqOfSet(lines), failed |-> FALSE,
                      stage |-> ""]
        /\ pc = IF infile = {} THEN "done" ELSE "map"
        /\ InitIdle

\* ChainedTask.mapper on one input line
ChainMap ==
    /\ pc = "map" /\ task.kind = "ChainedTask"
    /\ \E line \in pending :
         LET r == ChainedTask_mapper(task.querystring, touched, line)
         IN  /\ touched' = TRUE
             /\ shuffle' = shuffle \o r.pairs
             /\ pending' = pending \ {line}
             /\ pc' = IF r.raised THEN "failed"
                      ELSE IF pending' = {} THEN "reduce" ELSE "map"
    /\ UNCHANGED <<task, reduced, out, unfused, dag, ran, err, tree, result, infile,
                   applied, argtree, firstrun>>

\* ChainedTask.reducer on one key group
ChainReduce ==
    /\ pc = "reduce" /\ task.kind = "ChainedTask"
    /\ \E key \in ShuffleKeys(shuffle) \ {c.key : c \in reduced} :
         LET values == GroupValues(shuffle, key)
             r == ChainedTask_reducer(key, values)
         IN  /\ out' = out \o LinesOf(r.pairs)
             /\ reduced' = reduced \cup
                    {ReducerCall("ChainedTask", key, values, r.pairs)}
             /\ pc' = IF ShuffleKeys(shuffle) = {c.key : c \in reduced'}
                      THEN "done" ELSE "reduce"
    /\ UNCHANGED <<task, pending, touched, shuffle, unfused, dag, ran, err,
                   tree, result, infile,
                   applied, argtree, firstrun>>

\* the next task of the unfused pipeline, innermost operator first
UnfusedStage ==
    /\ pc \in {"done", "failed"}
    /\ unfused.todo # <<>> /\ ~unfused.failed
    /\ LET node == unfused.todo[1]
           job == IF node.kind = "Project" THEN ProjectJob(node, unfused.lines)
                  ELSE MapOnlyJob(node, unfused.lines)
       IN  /\ unfused' = [todo |-> Tail(unfused.todo), lines |-> job.lines,
                          failed |-> job.failed, stage |-> node.kind]
           /\ reduced' = reduced \cup job.calls
    /\ UNCHANGED <<pc, task, pending, touched, shuffle, out, dag, ran, err,
                   tree, result, infile,
                   applied, argtree, firstrun>>

NextChain == ChainMap \/ ChainReduce \/ UnfusedStage

SpecChain == InitChain /\ [][NextChain]_vars

\* the ChainedTask job has ended and the unfused pipeline has run to its end
BothFinished ==
    pc \in {"done", "failed"} /\ unfused.todo = <<>> /\ ~unfused.failed

\* what ChainedTask.requires and ChainedTask.mapper read back from the
\* querystring of the task
Refolded == try_fold_chain(one_statement_from_string(task.querystring))

\* the (relation, tuple) records of a file, tuples as mappings
Survivors(lines) == {<<lines[i].rel, DictAsSet(lines[i].tup)>> : i \in 1..Len(lines)}

\* the mapper's emissions other than the touch key
MapSurvivors == {i \in 1..Len(shuffle) : shuffle[i][1] # TouchKey}

NoDup(s) == \A i, j \in 1..Len(s) : i # j => s[i] # s[j]

\* C4: the fused ChainedTask writes exactly the (relation, tuple) records
\* that the unfused Select/Project/Rename tasks write when run stage by
\* stage, innermost first, on the same input.
C4_FusedEqualsUnfused ==
    BothFinished => pc = "done" /\ Survivors(out) = Survivors(unfused.lines)

\* C5: once a ChainedTask has run over a non-empty input, its output is
\* exactly one (__empty__, {}) record when the selects dropped every record,
\* and holds no such record when some record survived.
C5_PlaceholderWhenNoSurvivor ==
    (pc = "done" /\ infile # {}) =>
        /\ MapSurvivors = {} => out = <<Rec(EmptyKey, <<>>)>>
        /\ MapSurvivors # {} => \A i \in 1..Len(out) : out[i].rel # EmptyKey

\* C10: no call of ProjectTask.reducer or ChainedTask.reducer emits the same
\* (relation, tuple) record twice, whatever values its group holds.
C10_ReducersEmitDistinct == \A c \in reduced : NoDup(c.emits)

\* a ChainedTask group with a repeated value and a ProjectTask group of
\* several values have both been reduced
C10_Witness ==
    /\ \E c \in reduced : /\ c.task = "ChainedTask"
                          /\ c.key # TouchKey
                          /\ ~NoDup(c.values)
                          /\ c.emits # <<>>
    /\ \E c \in reduced : c.task = "ProjectTask" /\ Len(c.values) >= 2

-----------------------------------------------------------------------------
(* SpecJoin: sigma_c(Person x Dept) through rule_introduce_joins, then one *)
(* JoinTask job over the lines of Person.json and Dept.json                *)

PersonRows == {PersonTuple(1, "Ana"), PersonTuple(2, "Bob")}

DeptRows == {DeptTuple(10, 1), DeptTuple(20, 2)}

\* conditions with at least one top-level attribute = attribute conjunct
JoinConds ==
    { JoinCond,
      BinOp(Attr("Dept", "pid"), "EQ", Attr("Person", "id")),
      BinOp(JoinCond, "AND", BinOp(Attr("Person", "name"), "EQ", Str("Ana"))),
      BinOp(JoinCond, "AND", BinOp(Attr("Dept", "id"), "EQ", Num("20"))),
      BinOp(BinOp(Attr("Dept", "pid"), "EQ", Attr("Person", "id")), "AND",
            BinOp(Attr(NoRel, "id"), "EQ", Num("1"))) }

EmpTuple(did) == << <<<<"Emp", "did">>, IntV(did)>> >>

EmpRows == {EmpTuple(10), EmpTuple(20)}

\* the lines the task of Join(Person, Dept.pid = Person.id, Dept) writes
JoinedRows ==
    {SortKeys(DictMerge(PersonTuple(1, "Ana"), DeptTuple(10, 1))),
     SortKeys(DictMerge(PersonTuple(2, "Bob"), DeptTuple(20, 2)))}

\* a selection over a Cross with the lines of the Cross's two inputs: Person
\* and Dept, or the output of a Join of the two and Emp
JoinInputs ==
    {[tree |-> Select(c, Cross(RelRef("Person"), RelRef("Dept"))),
      lines |-> {Rec("Person", l) : l \in L} \cup {Rec("Dept", r) : r \in R}] :
        c \in JoinConds, L \in SUBSET PersonRows, R \in SUBSET DeptRows}
    \cup
    {[tree |-> Select(BinOp(Attr("Emp", "did"), "EQ", Attr("Dept", "id")),
                      Cross(Join(RelRef("Person"),
                                 BinOp(Attr("Dept", "pid"), "EQ",
                                       Attr("Person", "id")),
                                 RelRef("Dept")),
                            RelRef("Emp"))),
      lines |-> {Rec("Person", l) : l \in L} \cup {Rec("Emp", r) : r \in R}] :
        L \in SUBSET JoinedRows, R \in SUBSET EmpRows}

InitJoin ==
    \E i \in JoinInputs :
      /\ tree = i.tree
      /\ result = rule_introduce_joins(tree)
      /\ applied = <<"rule_introduce_joins">>
      /\ argtree = tree
      /\ firstrun = {}
      /\ task = task_factory(result, 1, FALSE)
      /\ infile = i.lines
      /\ pending = infile
      /\ touched = FALSE
      /\ shuffle = <<>>
      /\ reduced = {}
      /\ out = <<>>
      /\ unfused = [todo |-> <<>>, lines |-> <<>>, failed |-> FALSE,
                    stage |-> ""]
      /\ pc = IF infile = {} THEN "done" ELSE "map"
      /\ dag = {} /\ ran = {} /\ err = {}

\* what the phase becomes once the mapper has seen every line
AfterMap(pairs) == IF ShuffleKeys(pairs) = {} THEN "done" ELSE "reduce"

\* JoinTask.mapper on one input line
JoinMap ==
    /\ pc = "map" /\ task.kind = "JoinTask"
    /\ \E line \in pending :
         LET r == JoinTask_mapper(task.querystring, line)
         IN  /\ shuffle' = shuffle \o r.pairs
             /\ pending' = pending \ {line}
             /\ pc' = IF pending' = {} THEN AfterMap(shuffle') ELSE "map"
    /\ UNCHANGED <<task, touched, reduced, out, unfused, dag, ran, err, tree,
                   result, infile,
                   applied, argtree, firstrun>>

\* JoinTask.reducer on one key group
JoinReduce ==
    /\ pc = "reduce" /\ task.kind = "JoinTask"
    /\ \E key \in ShuffleKeys(shuffle) \ {c.key : c \in reduced} :
       \E out_rel \in OutRels(rels(one_statement_from_string(task.querystring).left)) :
         LET values == GroupValues(shuffle, key)
             r == JoinTask_reducer(task.querystring, out_rel, key, values)
         IN  /\ out' = out \o LinesOf(r.pairs)
             /\ reduced' = reduced \cup
                    {ReducerCall("JoinTask", key, values, r.pairs)}
             /\ pc' = IF r.raised THEN "failed"
                      ELSE IF ShuffleKeys(shuffle) = {c.key : c \in reduced'}
                      THEN "done" ELSE "reduce"
    /\ UNCHANGED <<task, pending, touched, shuffle, unfused, dag, ran, err,
                   tree, result, infile,
                   applied, argtree, firstrun>>

\* the scheduler executes the finished task once more, in a new process,
\* on the same querystring, step and input lines
JoinRerun ==
    /\ pc = "done" /\ task.kind = "JoinTask" /\ firstrun = {}
    /\ firstrun' = {out}
    /\ pending' = infile
    /\ shuffle' = <<>>
    /\ reduced' = {}
    /\ out' = <<>>
    /\ pc' = IF infile = {} THEN "done" ELSE "map"
    /\ UNCHANGED <<task, touched, unfused, dag, ran, err, tree, result, infile,
                   applied, argtree>>

NextJoin == JoinMap \/ JoinReduce \/ JoinRerun

SpecJoin == InitJoin /\ [][NextJoin]_vars

\* the tuples of the input lines labelled with a relation of the node
RowsOf(node) == {l.tup : l \in {x \in infile : x.rel \in rels(node)}}

\* { merge(l, r) : l in L, r in R, C(merge(l, r)) }, tuples as mappings
JoinExpected(cond) ==
    {DictAsSet(DictMerge(l, r)) : <<l, r>> \in
        {p \in RowsOf(task.querystring.left) \X RowsOf(task.querystring.right) :
            Truthy(eval_cond(cond, DictMerge(p[1], p[2])))}}

\* C2: once the JoinTask has mapped every line of L and R and reduced every
\* key group, its output is exactly { merge(l,r) : l in L, r in R,
\* C(merge(l,r)) } (nothing when L or R is empty).
C2_JoinOutputIsThetaJoin ==
    (pc = "done" /\ task.kind = "JoinTask") =>
        {DictAsSet(out[i].tup) : i \in 1..Len(out)} = JoinExpected(task.querystring.cond)

\* the scenario of C3: both Person rows, both Dept rows, Person.id = Dept.pid
C3_Scenario ==
    /\ tree = Select(JoinCond, Cross(RelRef("Person"), RelRef("Dept")))
    /\ infile = {Rec("Person", l) : l \in PersonRows}
                   \cup {Rec("Dept", r) : r \in DeptRows}

\* C3: in the scenario the optimizer yields Join(Person, Person.id=Dept.pid,
\* Dept), and the finished JoinTask has written exactly the two merged rows
\* Person 1 with Dept pid 1 and Person 2 with Dept pid 2.
C3_ScenarioTwoRows ==
    C3_Scenario =>
        /\ result = Join(RelRef("Person"), JoinCond, RelRef("Dept"))
        /\ pc = "done" =>
             {DictAsSet(out[i].tup) : i \in 1..Len(out)} =
                 { DictAsSet(DictMerge(PersonTuple(1, "Ana"), DeptTuple(10, 1))),
                   DictAsSet(DictMerge(PersonTuple(2, "Bob"), DeptTuple(20, 2))) }

-----------------------------------------------------------------------------
(* SpecDag: task_factory on a tree, the DAG expanded by requires(), and    *)
(* the scheduler running each task after its dependencies                  *)

MaxSize == 6

DagCond == BinOp(Attr("Person", "id"), "EQ", Num("1"))

RECURSIVE TreesOfSize(_)
\* the RA trees of n nodes
TreesOfSize(n) ==
    IF n = 1 THEN {RelRef("Person")}
    ELSE {Select(DagCond, t) : t \in TreesOfSize(n - 1)}
         \cup {Project(<<Attr("Person", "id")>>, t) : t \in TreesOfSize(n - 1)}
         \cup {Rename("P", <<"*">>, t) : t \in TreesOfSize(n - 1)}
         \cup UNION {{Join(l, JoinCond, r) :
                         l \in TreesOfSize(i), r \in TreesOfSize(n - 1 - i)} :
                     i \in 1..(n - 2)}
         \cup UNION {{Cross(l, r) :
                         l \in TreesOfSize(i), r \in TreesOfSize(n - 1 - i)} :
                     i \in 1..(n - 2)}

\* larger trees: a Join with a runnable left input and a Cross deep in the
\* right one, and a Join of two chains
DeepTrees ==
    { Join(Select(DagCond, RelRef("Person")), JoinCond,
           Select(DagCond, Cross(RelRef("Dept"), RelRef("Person")))),
      Join(Select(DagCond, Project(<<Attr("Person", "id")>>, RelRef("Person"))),
           JoinCond,
           Rename("D", <<"*">>, Select(DagCond, RelRef("Dept")))) }

DagTrees == DeepTrees \cup UNION {TreesOfSize(n) : n \in 1..MaxSize}

RECURSIVE HasCross(_)
HasCross(t) ==
    CASE t.kind = "Cross" -> TRUE
      [] t.kind \in {"Select", "Project", "Rename", "ChainedOp"} -> HasCross(t.input)
      [] t.kind = "Join" -> HasCross(t.left) \/ HasCross(t.right)
      [] OTHER -> FALSE

\* a task of the DAG: where it hangs, and whether its requires() has been
\* called ("new"), returned ("deps") or raised ("broken")
DagNode(path, t, st) == [path |-> path, t |-> t, st |-> st]

IsOperatorTask(n) == n.t.kind # "InputData"

InitDag ==
    \E t \in DagTrees, optimize \in BOOLEAN :
      LET root == task_factory(t, 1, optimize)
      IN  /\ tree = t
          /\ result = t
          /\ applied = <<>> /\ argtree = t /\ firstrun = {}
          /\ dag = IF IsRaise(root) THEN {} ELSE {DagNode(<<>>, root, "new")}
          /\ err = IF IsRaise(root) THEN {root} ELSE {}
          /\ ran = {}
          /\ pc = "schedule"
          /\ task = root
          /\ infile = {} /\ pending = {} /\ touched = FALSE /\ shuffle = <<>>
          /\ reduced = {} /\ out = <<>>
          /\ unfused = [todo |-> <<>>, lines |-> <<>>, failed |-> FALSE,
                    stage |-> ""]

\* the scheduler calls requires() of a task it has not resolved yet
Requires ==
    /\ pc = "schedule"
    /\ \E n \in dag :
         /\ n.st = "new"
         /\ LET deps == requires(n.t)
                broken == deps # <<>> /\ IsRaise(deps[1])
            IN  /\ dag' = (dag \ {n})
                      \cup {DagNode(n.path, n.t, IF broken THEN "broken" ELSE "deps")}
                      \cup (IF broken THEN {}
                            ELSE {DagNode(Append(n.path, i), deps[i], "new") :
                                     i \in 1..Len(deps)})
                /\ err' = IF broken THEN err \cup {deps[1]} ELSE err
    /\ UNCHANGED <<pc, task, pending, touched, shuffle, reduced, out, unfused,
                   ran, tree, result, infile,
                   applied, argtree, firstrun>>

\* every task reached has had its requires() called: scheduling is over
DoneScheduling ==
    /\ pc = "schedule"
    /\ \A n \in dag : n.st # "new"
    /\ pc' = "run"
    /\ UNCHANGED <<task, pending, touched, shuffle, reduced, out, unfused, dag,
                   ran, err, tree, result, infile,
                   applied, argtree, firstrun>>

\* the dependencies requires() returned for the task at path
DepsOf(path) == {n \in dag : Len(n.path) = Len(path) + 1
                              /\ SubSeq(n.path, 1, Len(path)) = path}

Complete(n) == ~IsOperatorTask(n) \/ n.path \in ran

\* the worker runs the job of a task whose dependencies are all complete
RunTask ==
    /\ pc = "run"
    /\ \E n \in dag :
         /\ IsOperatorTask(n) /\ n.st = "deps" /\ n.path \notin ran
         /\ \A d \in DepsOf(n.path) : Complete(d)
         /\ ran' = ran \cup {n.path}
    /\ UNCHANGED <<pc, task, pending, touched, shuffle, reduced, out, unfused,
                   dag, err, tree, result, infile,
                   applied, argtree, firstrun>>

NextDag == Requires \/ DoneScheduling \/ RunTask

SpecDag == InitDag /\ [][NextDag]_vars

\* C1: in the DAG of a Cross-free tree no two distinct operator tasks carry
\* the same step, hence none share a tmp<step> output; the steps below a
\* Join's left input and below its right input are disjoint.
C1_StepsUnique ==
    ~HasCross(tree) =>
        \A a, b \in dag :
            (IsOperatorTask(a) /\ IsOperatorTask(b) /\ a.path # b.path)
                => a.t.step # b.t.step

\* a fully expanded DAG with a JoinTask whose two inputs are operator tasks,
\* the left one with a dependency of its own
C1_Witness ==
    /\ ~HasCross(tree) /\ pc = "run"
    /\ \E j, l, r, x \in dag :
         /\ j.t.kind = "JoinTask"
         /\ l.path = Append(j.path, 1) /\ r.path = Append(j.path, 2)
         /\ x.path = Append(l.path, 1)
         /\ IsOperatorTask(l) /\ IsOperatorTask(r)

\* C8: for a tree holding a Cross no task is ever run, and once scheduling
\* is over the compilation has failed with an error naming the Cross.
C8_CrossFailsBeforeAnyRun ==
    HasCross(tree) =>
        /\ ran = {}
        /\ pc = "run" => \E e \in err : e.operator = "Cross"

-----------------------------------------------------------------------------
(* SpecOpt: one optimizer rule applied to a valid tree, then the rule that *)
(* the claims compose it with                                              *)

MaxOptSize == 4

MaxConj == 3

\* the schema directory: relation name -> column names
OptDd == [Person |-> {"id", "name"}, Dept |-> {"id", "pid"}]

OptAtoms ==
    { BinOp(Attr("Person", "id"), "EQ", Num("1")),
      JoinCond,
      BinOp(Attr("Dept", "pid"), "EQ", Attr(NoRel, "id")),
      BinOp(Attr(NoRel, "name"), "EQ", Str("Ana")) }

OptAttrLists == {<<Attr("Dept", "pid")>>, <<Attr("Person", "name")>>}

RECURSIVE OptTreesOfSize(_)
\* the RA trees of n nodes
OptTreesOfSize(n) ==
    IF n = 1 THEN {RelRef("Person"), RelRef("Dept")}
    ELSE {Select(c, t) : c \in OptAtoms, t \in OptTreesOfSize(n - 1)}
         \cup {Project(a, t) : a \in OptAttrLists, t \in OptTreesOfSize(n - 1)}
         \cup {Rename("P", <<"*">>, t) : t \in OptTreesOfSize(n - 1)}
         \cup UNION {{Join(l, JoinCond, r) :
                         l \in OptTreesOfSize(i), r \in OptTreesOfSize(n - 1 - i)} :
                     i \in 1..(n - 2)}
         \cup UNION {{Cross(l, r) :
                         l \in OptTreesOfSize(i), r \in OptTreesOfSize(n - 1 - i)} :
                     i \in 1..(n - 2)}

\* conjuncts the selection runs are built from; the last is not an AND at
\* its top level
RunAtoms ==
    { BinOp(Attr("Person", "id"), "EQ", Num("1")),
      BinOp(Attr(NoRel, "name"), "EQ", Str("Ana")),
      BinOp(BinOp(Attr("Person", "id"), "EQ", Num("2")), "OR",
            BinOp(BinOp(Attr(NoRel, "name"), "EQ", Str("Bob")), "AND",
                  BinOp(Attr("Person", "id"), "EQ", Num("2")))) }

RECURSIVE CondsOfLeaves(_)
\* the conditions that are AND trees, of any shape, over n conjuncts
CondsOfLeaves(n) ==
    IF n = 1 THEN RunAtoms
    ELSE UNION {{BinOp(l, "AND", r) :
                    l \in CondsOfLeaves(i), r \in CondsOfLeaves(n - i)} :
                i \in 1..(n - 1)}

\* what a run of Selects stands on
RunBases ==
    { RelRef("Person"),
      Cross(RelRef("Person"), RelRef("Dept")),
      Project(<<Attr("Person", "id"), Attr("Person", "name")>>,
              Select(BinOp(Attr("Person", "id"), "EQ", Num("1")),
                     Select(BinOp(Attr(NoRel, "name"), "EQ", Str("Ana")),
                            RelRef("Person")))) }

RECURSIVE RunsOfLeaves(_, _)
\* the vertical runs of Selects over base with n conjuncts in all
RunsOfLeaves(n, base) ==
    {Select(c, base) : c \in CondsOfLeaves(n)}
    \cup UNION {{Select(c, t) :
                    c \in CondsOfLeaves(i), t \in RunsOfLeaves(n - i, base)} :
                i \in 1..(n - 1)}

\* inputs of a Cross under a selection: plain, renamed, already selected,
\* projected, and holding a Cross of their own
OptSides ==
    LET E == Rename("E", <<"*">>, RelRef("Person"))
        F == Rename("F", <<"*">>, RelRef("Dept"))
    IN  { RelRef("Person"), RelRef("Dept"), E,
          Select(BinOp(Attr("Dept", "id"), "EQ", Num("10")), RelRef("Dept")),
          Project(<<Attr("Dept", "pid")>>, RelRef("Dept")),
          Cross(E, F),
          Select(BinOp(Attr("E", "id"), "EQ", Num("1")), Cross(E, F)),
          Select(BinOp(Attr("E", "id"), "EQ", Attr("F", "pid")), Cross(E, F)),
          Select(BinOp(Attr("F", "id"), "EQ", Num("10")),
                 Select(BinOp(Attr("E", "id"), "EQ", Attr("F", "pid")),
                        Cross(E, F))) }

CrossTrees ==
    {Select(c, Cross(l, r)) : c \in OptAtoms, l \in OptSides, r \in OptSides}
    \cup {Select(c, Select(d, Cross(l, r))) :
             c \in OptAtoms, d \in {JoinCond},
             l \in {RelRef("Person")}, r \in OptSides}

RECURSIVE CondAttrRefs(_)
\* the AttrRef nodes of a condition
CondAttrRefs(cond) ==
    CASE cond.k = "attr" -> {cond}
      [] cond.k = "binop" -> CondAttrRefs(cond.l) \cup CondAttrRefs(cond.r)
      [] OTHER -> {}

\* attribute a names exactly one column of the schema keys
Resolves(a, keys) ==
    IF a.rel # NoRel THEN AttrKey(a) \in keys
    ELSE Cardinality({x \in keys : x[2] = a.name}) = 1

ResolvedKey(a, keys) ==
    IF a.rel # NoRel THEN AttrKey(a) ELSE CHOOSE x \in keys : x[2] = a.name

RECURSIVE OutputKeys(_, _)
\* the qualified column names of the tuples a tree produces
OutputKeys(t, dd) ==
    CASE t.kind = "RelRef" -> {<<t.rel, a>> : a \in DdGet(dd, t.rel)}
      [] t.kind = "Select" -> OutputKeys(t.input, dd)
      [] t.kind = "Project" ->
           {ResolvedKey(a, OutputKeys(t.input, dd)) : a \in Range(t.attrs)}
      [] t.kind = "Rename" -> {<<t.relname, x[2]>> : x \in OutputKeys(t.input, dd)}
      [] OTHER -> OutputKeys(t.left, dd) \cup OutputKeys(t.right, dd)

RECURSIVE Valid(_, _)
\* a valid tree: every attribute reference names exactly one column of the
\* input of its node, and the inputs of a Cross or Join carry different
\* relation names
Valid(t, dd) ==
    CASE t.kind = "RelRef" -> t.rel \in DOMAIN dd
      [] t.kind = "Select" ->
           /\ Valid(t.input, dd)
           /\ \A a \in CondAttrRefs(t.cond) : Resolves(a, OutputKeys(t.input, dd))
      [] t.kind = "Project" ->
           /\ Valid(t.input, dd)
           /\ \A a \in Range(t.attrs) : Resolves(a, OutputKeys(t.input, dd))
      [] t.kind = "Rename" ->
           /\ Valid(t.input, dd)
           /\ \A x, y \in OutputKeys(t.input, dd) : x[2] = y[2] => x = y
      [] OTHER ->
           /\ Valid(t.left, dd) /\ Valid(t.right, dd)
           /\ {x[1] : x \in OutputKeys(t.left, dd)}
                \cap {x[1] : x \in OutputKeys(t.right, dd)} = {}
           /\ t.kind = "Join" =>
                \A a \in CondAttrRefs(t.cond) :
                    Resolves(a, OutputKeys(t.left, dd) \cup OutputKeys(t.right, dd))

\* trees with a Project over a Join, at the root and below it
JoinTrees ==
    LET joins == {Join(l, JoinCond, r) :
                     l \in {RelRef("Person"),
                            Select(BinOp(Attr("Person", "id"), "EQ", Num("1")),
                                   RelRef("Person"))},
                     r \in {RelRef("Dept"),
                            Project(<<Attr("Dept", "pid")>>, RelRef("Dept"))}}
        attrs == {<<Attr("Person", "name")>>,
                  <<Attr("Person", "name"), Attr("Dept", "id")>>,
                  <<Attr("Person", "id"), Attr("Person", "name"),
                    Attr("Dept", "id"), Attr("Dept", "pid")>>,
                  <<Attr(NoRel, "name"), Attr(NoRel, "pid")>>}
        projects == {Project(a, j) : a \in attrs, j \in joins}
    IN  projects
        \cup {Select(BinOp(Attr(NoRel, "name"), "EQ", Str("Ana")), p) :
                 p \in projects}
        \cup {Rename("P", <<"*">>, p) : p \in projects}

OptTrees ==
    {t \in CrossTrees \cup JoinTrees
           \cup UNION {OptTreesOfSize(n) : n \in 1..MaxOptSize}
           \cup UNION {RunsOfLeaves(n, b) : n \in 1..MaxConj, b \in RunBases} :
        Valid(t, OptDd)}

InitOpt ==
    \E t \in OptTrees :
      /\ tree = t
      /\ result = t
      /\ applied = <<>> /\ argtree = t /\ firstrun = {}
      /\ dag = {} /\ ran = {} /\ err = {}
      /\ pc = "optimize"
      /\ task = [kind |-> "InputData", filename |-> ""]
      /\ infile = {} /\ pending = {} /\ touched = FALSE /\ shuffle = <<>>
      /\ reduced = {} /\ out = <<>>
      /\ unfused = [todo |-> <<>>, lines |-> <<>>, failed |-> FALSE,
                    stage |-> ""]

\* a call of a rule that only reads expr and builds new nodes
Call(expr, ret) == {[arg |-> expr, ret |-> ret]}

\* rule `name` called on result after the rules `before`; calls are the
\* outcomes the call can have
ApplyRule(before, name, calls) ==
    /\ applied = before
    /\ \E c \in calls : result' = c.ret /\ argtree' = c.arg
    /\ applied' = Append(applied, name)
    /\ UNCHANGED <<pc, task, pending, touched, shuffle, reduced, out, unfused,
                   dag, ran, err, tree, infile, firstrun>>

BreakUp ==
    ApplyRule(<<>>, "rule_break_up_selections",
              Call(result, rule_break_up_selections(result)))

Merge ==
    ApplyRule(<<>>, "rule_merge_selections",
              Call(result, rule_merge_selections(result)))

PushDownSelections ==
    ApplyRule(<<>>, "rule_push_down_selections",
              Call(result, rule_push_down_selections(result, OptDd)))

IntroduceJoins ==
    ApplyRule(<<>>, "rule_introduce_joins",
              Call(result, rule_introduce_joins(result)))

PushDownProjections ==
    ApplyRule(<<>>, "rule_push_down_projections",
              rule_push_down_projections_call(result, OptDd))

MergeAfterBreakUp ==
    ApplyRule(<<"rule_break_up_selections">>, "rule_merge_selections",
              Call(result, rule_merge_selections(result)))

IntroduceJoinsAfterPush ==
    ApplyRule(<<"rule_push_down_selections">>, "rule_introduce_joins",
              Call(result, rule_introduce_joins(result)))

NextOpt ==
    \/ BreakUp
    \/ Merge
    \/ PushDownSelections
    \/ IntroduceJoins
    \/ PushDownProjections
    \/ MergeAfterBreakUp
    \/ IntroduceJoinsAfterPush

SpecOpt == InitOpt /\ [][NextOpt]_vars

\* the relations a tree is evaluated over: every choice of rows
OptDatabases ==
    {[Person |-> P, Dept |-> D] : P \in SUBSET PersonRows, D \in SUBSET DeptRows}

RECURSIVE Eval(_, _)
\* relational-algebra evaluation of a tree over a database, as the set of
\* its output tuples: conditions through the scalar evaluator, Project and
\* Rename as their operators restrict and re-qualify one tuple, Cross as
\* every merge of a left with a right tuple, Join as the merges that satisfy
\* the condition
Eval(t, db) ==
    CASE t.kind = "RelRef" -> {SortKeys(tu) : tu \in db[t.rel]}
      [] t.kind = "Select" ->
           {tu \in Eval(t.input, db) : Truthy(eval_cond(t.cond, tu))}
      [] t.kind = "Project" ->
           {SortKeys(ProjectAttrs(t.attrs, tu, <<>>)) : tu \in Eval(t.input, db)}
      [] t.kind = "Rename" ->
           {SortKeys(RenameKeys(tu, t.relname, <<>>)) : tu \in Eval(t.input, db)}
      [] t.kind = "Cross" ->
           {SortKeys(DictMerge(l, r)) :
               l \in Eval(t.left, db), r \in Eval(t.right, db)}
      [] OTHER ->
           {tu \in {SortKeys(DictMerge(l, r)) :
                       l \in Eval(t.left, db), r \in Eval(t.right, db)} :
               Truthy(eval_cond(t.cond, tu))}

\* C6: for each of the five optimizer rules R and every valid tree T over
\* the schema directory, the set of output tuples of R(T) equals the set of
\* output tuples of T, over every database.
C6_RulesPreserveEvaluation ==
    Len(applied) = 1 =>
        \A db \in OptDatabases : Eval(result, db) = Eval(tree, db)

RECURSIVE Conjuncts(_)
\* the top-level conjuncts of a condition, left to right
Conjuncts(cond) ==
    IF cond.k = "binop" /\ cond.op = "AND"
    THEN Conjuncts(cond.l) \o Conjuncts(cond.r)
    ELSE <<cond>>

\* the conjuncts of a vertical run of Selects, outermost Select first
RunConjuncts(t) ==
    Flatten([i \in 1..Len(SelectConds(t)) |-> Conjuncts(SelectConds(t)[i])])

MergedBreakUp ==
    /\ applied = <<"rule_break_up_selections", "rule_merge_selections">>
    /\ tree.kind = "Select"

\* C7 as stated: merge(break_up(T)) of a run of Selects T is one Select
\* standing on the run's own input, not on a Select, and its condition is
\* an AND-chain of exactly T's top-level conjuncts in their order.
C7_MergeOfBreakUpOverSameInput ==
    MergedBreakUp =>
        /\ result.kind = "Select"
        /\ result.input.kind # "Select"
        /\ result.input = SelectBase(tree)
        /\ Conjuncts(result.cond) = RunConjuncts(tree)

\* C7: merge(break_up(T)) of a run of Selects T is one Select, not standing
\* on a Select, whose condition is an AND-chain of exactly T's top-level
\* conjuncts in their left-to-right, outer-to-inner order; its input is the
\* run's input with the same two rules applied inside it.
C7_MergeOfBreakUp ==
    MergedBreakUp =>
        /\ result.kind = "Select"
        /\ result.input.kind # "Select"
        /\ result.input =
             rule_merge_selections(rule_break_up_selections(SelectBase(tree)))
        /\ Conjuncts(result.cond) = RunConjuncts(tree)

C7_Witness ==
    /\ MergedBreakUp
    /\ Len(SelectConds(tree)) = 2
    /\ Len(RunConjuncts(tree)) = 3
    /\ Cardinality(Range(RunConjuncts(tree))) = 3
    /\ result.input # SelectBase(tree)

\* the case C9 is about: a selection over a Cross whose condition is not a
\* join condition and names only attributes derivable from the left input
PushableLeft(t) ==
    /\ t.kind = "Select" /\ t.input.kind = "Cross"
    /\ ~is_join_condition(t.cond, extract_expr_attrs(t.input.left, OptDd),
                          extract_expr_attrs(t.input.right, OptDd))
    /\ can_push_down(t.cond, t.input.left, OptDd)

PushedLeft ==
    /\ Len(applied) >= 1 /\ applied[1] = "rule_push_down_selections"
    /\ PushableLeft(tree)

\* C9 as stated: in that case rule_push_down_selections returns
\* Cross(L', R), L' being Select(c, L) pushed further and R unchanged, and a
\* following rule_introduce_joins leaves a Cross at the root.
C9_PushedOntoLeftRightUnchanged ==
    PushedLeft =>
        /\ Len(applied) = 1 =>
             result = Cross(rule_push_down_selections(
                                Select(tree.cond, tree.input.left), OptDd),
                            tree.input.right)
        /\ Len(applied) = 2 => result.kind = "Cross"

\* C9: in that case rule_push_down_selections returns Cross(L', R'), L'
\* being Select(c, L) pushed further and R' being R with its own selections
\* pushed down (R itself when it has none to push); no Select remains above
\* the Cross, and a following rule_introduce_joins leaves a Cross at the
\* root.
C9_PushedOntoLeft ==
    PushedLeft =>
        /\ Len(applied) = 1 =>
             result = Cross(rule_push_down_selections(
                                Select(tree.cond, tree.input.left), OptDd),
                            rule_push_down_selections(tree.input.right, OptDd))
        /\ Len(applied) = 2 => result.kind = "Cross"

C9_Witness ==
    /\ PushedLeft
    /\ Len(applied) = 2
    /\ tree.input.right # rule_push_down_selections(tree.input.right, OptDd)
    /\ result.left.kind = "Select"

-----------------------------------------------------------------------------
(* Claims on the task compiler and the operators (SpecDag, SpecChain,      *)
(* SpecJoin)                                                               *)

RECURSIVE Nodes(_)
\* every node of a tree
Nodes(t) ==
    CASE t.kind \in {"Select", "Project", "Rename", "ChainedOp"} ->
           {t} \cup Nodes(t.input)
      [] t.kind \in {"Join", "Cross"} -> {t} \cup Nodes(t.left) \cup Nodes(t.right)
      [] OTHER -> {t}

\* the trees count_steps is asked about while the DAG is built: each task's
\* subtree, as the task holds it and as it is parsed back
CountedTrees ==
    UNION {Nodes(n.t.querystring) \cup Nodes(one_statement_from_string(n.t.querystring)) :
              n \in {x \in dag : IsOperatorTask(x)}}

\* C11: count_steps is 1 for a RelRef, 1 + count_steps(child) for Select,
\* Project, Rename and ChainedOp (one stage whatever the number of fused
\* operations), and 1 + count_steps(left) + count_steps(right) for a Join,
\* at every depth of a tree.
C11_CountSteps ==
    \A t \in CountedTrees :
        ~HasCross(t) =>
            CASE t.kind = "RelRef" -> count_steps(t) = 1
              [] t.kind \in {"Select", "Project", "Rename"} ->
                   count_steps(t) = 1 + count_steps(t.input)
              [] t.kind = "ChainedOp" ->
                   /\ count_steps(t) = 1 + count_steps(t.input)
                   /\ count_steps(t) = count_steps(ChainedOp(<<>>, t.input))
              [] t.kind = "Join" ->
                   count_steps(t) = 1 + count_steps(t.left) + count_steps(t.right)
              [] OTHER -> TRUE

\* the DAG is built, and a ChainedOp of two or more operations over a Join
\* has been counted
C11_Witness ==
    pc = "run" /\ \E t \in CountedTrees :
        /\ t.kind = "ChainedOp" /\ Len(t.operations) >= 2
        /\ t.input.kind = "Join" /\ ~HasCross(t)
        /\ count_steps(t) >= 4

\* SpecReduce: the reduce phases of both jobs, a ChainedTask job with its
\* unfused pipeline or a JoinTask job
SpecReduce == (InitChain \/ InitJoin) /\ [][NextChain \/ NextJoin]_vars

\* the orders in which the shuffle can deliver the values of a group
Orderings(values) ==
    {[i \in 1..Len(values) |-> values[p[i]]] : p \in Perms(1..Len(values))}

\* the records the reducer of a task kind emits for a key group; a JoinTask
\* labels them out_rel
Emitted(kind, key, values, out_rel) ==
    Range((CASE kind = "JoinTask" ->
                  JoinTask_reducer(task.querystring, out_rel, key, values)
             [] kind = "ProjectTask" -> ProjectTask_reducer(key, values)
             [] OTHER -> ChainedTask_reducer(key, values)).pairs)

JoinLabels ==
    IF task.kind = "JoinTask"
    THEN OutRels(rels(one_statement_from_string(task.querystring).left))
    ELSE {"joined"}

\* C15: for every key group reduced by a JoinTask, ProjectTask or
\* ChainedTask, the set of records emitted is the same for every order of
\* the values within the group.
C15_ReduceOrderIndependent ==
    \A c \in reduced :
        c.task \in {"JoinTask", "ProjectTask", "ChainedTask"} =>
            \A v \in Orderings(c.values), out_rel \in JoinLabels :
                Emitted(c.task, c.key, v, out_rel)
                    = Emitted(c.task, c.key, c.values, out_rel)

\* a ChainedTask group of two different values has been reduced and records
\* were emitted for it
C15_Witness ==
    \E c \in reduced :
        /\ c.task = "ChainedTask" /\ c.emits # <<>>
        /\ Cardinality(Range(c.values)) >= 2

\* the querystring of a ChainedTask reads back as the chain it was rendered
\* from: the same operations over the terminal as its own text reads back
ReadsBackAsChain(chain) ==
    LET again == try_fold_chain(one_statement_from_string(chain))
    IN  /\ again.kind = "ChainedOp"
        /\ again.operations = chain.operations
        /\ again.input = one_statement_from_string(chain.input)

\* C21: the text of every ChainedOp made by try_fold_chain, parsed and
\* folded again, is a ChainedOp with the same operations over the same
\* terminal subtree, whether the terminal is a RelRef, a Join or a Cross, so
\* the one task a ChainedTask.requires call has returned is the task of that
\* terminal.
C21_ChainReadsBack ==
    \A n \in dag :
      (n.t.kind = "ChainedTask" /\ n.st = "deps") =>
        /\ ReadsBackAsChain(n.t.querystring)
        /\ {d.t : d \in DepsOf(n.path)} =
             {task_factory(one_statement_from_string(n.t.querystring.input),
                           n.t.step + 1, n.t.optimize)}

\* C16: a JoinTask executed again on the same subtree, step and input lines
\* writes the same records as the first time, relation label included.
C16_RerunSameOutput ==
    \A first \in firstrun : pc = "done" => Range(out) = Range(first)

\* C14: evaluating a condition against a tuple never raises: whatever the
\* attribute, literal or operator, ordering comparisons included, the map
\* invocation of the ChainedTask and of the unfused SelectTask completes.
C14_EvaluationNeverRaises ==
    /\ pc = "failed" => Refolded.kind # "ChainedOp"
    /\ ~(unfused.failed /\ unfused.stage = "Select")

\* attribute resolution as specified: the exact name, else the one key with
\* the column suffix, else unresolved (None)
Resolution(a, tup) ==
    LET hits == {i \in 1..Len(tup) : tup[i][1][2] = a.name}
    IN  IF DictHas(tup, AttrKey(a)) THEN DictGet(tup, AttrKey(a))
        ELSE IF Cardinality(hits) = 1 THEN tup[CHOOSE i \in hits : TRUE][2]
        ELSE NoneV

\* the tuples the JoinTask has resolved attributes against so far: the
\* lines its mapper has seen and the merged pairs of the reduced key groups
JoinResolvedAgainst ==
    LET raquery == one_statement_from_string(task.querystring)
        sides(c) == Classify(c.values, rels(raquery.left), rels(raquery.right),
                             <<<<>>, <<>>>>)
    IN  {l.tup : l \in infile \ pending}
        \cup UNION {{DictMerge(sides(c)[1][i], sides(c)[2][j]) :
                        i \in 1..Len(sides(c)[1]), j \in 1..Len(sides(c)[2])} :
                    c \in reduced}

\* C13: an attribute reference resolves to the value under its exact name
\* if the tuple has that key, else to the value of the only key with its
\* column suffix, else (no such key, or more than one) it is unresolved.
C13_ResolutionPrecedence ==
    task.kind = "JoinTask" =>
        \A tup \in JoinResolvedAgainst :
            \A a \in CondAttrRefs(one_statement_from_string(task.querystring).cond) :
                atom_value(a, tup) = Resolution(a, tup)

\* the operations of a chain other than the renames without an alias
WithoutAbsentAlias(operations) ==
    SelectSeq(operations, LAMBDA op : ~(op[1] = "rename" /\ op[2][1] = NoRel))

\* record b is record a with every key re-qualified by the alias
Requalified(a, b, alias) ==
    /\ b.rel = alias
    /\ {kv[1] : kv \in Range(b.tup)} = {<<alias, kv[1][2]>> : kv \in Range(a.tup)}
    /\ \A kv \in Range(b.tup) :
          \E old \in Range(a.tup) : old[1][2] = kv[1][2] /\ old[2] = kv[2]

\* a RenameTask job of the unfused pipeline, and the rename steps of the
\* ChainedTask mapper on the lines it has still to read
RenameStep ==
    /\ (/\ unfused.todo # <<>> /\ unfused.todo[1].kind = "Rename"
        /\ unfused' # unfused) =>
          LET node == unfused.todo[1]
          IN  /\ ~unfused'.failed
              /\ Len(unfused'.lines) = Len(unfused.lines)
              /\ \A i \in 1..Len(unfused.lines) :
                    IF node.relname = NoRel
                    THEN unfused'.lines[i] = unfused.lines[i]
                    ELSE Requalified(unfused.lines[i], unfused'.lines[i],
                                     node.relname)
    /\ (pc = "map" /\ task.kind = "ChainedTask" /\ Refolded.kind = "ChainedOp") =>
          LET operations == task.querystring.operations
              last == operations[Len(operations)]
          IN  \A line \in pending :
                LET r == ChainApply(Refolded.operations, line.rel, line.tup)
                IN  /\ r = ChainApply(WithoutAbsentAlias(operations),
                                      line.rel, line.tup)
                    /\ (/\ r.st = "emit" /\ last[1] = "rename"
                        /\ last[2][1] # NoRel) =>
                          /\ r.rel = last[2][1]
                          /\ \A kv \in Range(r.tup) : kv[1][1] = last[2][1]

\* C20: a Rename without an alias passes every record through unchanged, in
\* RenameTask.mapper and in the rename step of ChainedTask.mapper, and raises
\* nothing; with an alias every key is re-qualified by the alias, suffix
\* kept, and the relation label becomes the alias.
C20_RenameWithoutAliasIsPassthrough == [][RenameStep]_vars

-----------------------------------------------------------------------------
(* Claims on the optimizer rules (SpecOpt)                                 *)

\* C12: a call of any of the five optimizer rules leaves the tree it was
\* given as it was: every node keeps its inputs, condition and attribute
\* list.
C12_InputTreeUnchanged ==
    Len(applied) = 1 => argtree = tree

RECURSIVE CondsIn(_)
\* the conditions of the Select nodes of a tree
CondsIn(t) ==
    CASE t.kind = "RelRef" -> {}
      [] t.kind = "Select" -> {t.cond} \cup CondsIn(t.input)
      [] t.kind \in {"Project", "Rename"} -> CondsIn(t.input)
      [] OTHER -> CondsIn(t.left) \cup CondsIn(t.right)

\* cond is a join condition for the two inputs of a Cross
JoinCondOver(cond, cross) ==
    is_join_condition(cond, extract_expr_attrs(cross.left, OptDd),
                      extract_expr_attrs(cross.right, OptDd))

\* tree is Select(c, Cross(L, R)) with c a join condition
JoinCondOverCross ==
    /\ tree.kind = "Select" /\ tree.input.kind = "Cross"
    /\ JoinCondOver(tree.cond, tree.input)

\* tree is Select(c_out, Select(c_in, Cross(L, R))), c_out not a join
\* condition, c_in one, and the attributes of c_out derivable from one side
OuterOverJoinCond ==
    /\ tree.kind = "Select" /\ tree.input.kind = "Select"
    /\ tree.input.input.kind = "Cross"
    /\ ~JoinCondOver(tree.cond, tree.input.input)
    /\ JoinCondOver(tree.input.cond, tree.input.input)
    /\ \/ can_push_down(tree.cond, tree.input.input.left, OptDd)
       \/ can_push_down(tree.cond, tree.input.input.right, OptDd)

\* C17: rule_push_down_selections leaves a join condition directly above its
\* Cross: Select(c, Cross(L, R)) with c a join condition stays a Select of c
\* over a Cross, and in Select(c_out, Select(c_in, Cross(L, R))) with only
\* c_in a join condition and c_out derivable from one side the result is
\* Select(c_in, Cross(., .)) with c_out inside that side only.
C17_JoinConditionStaysAboveCross ==
    applied = <<"rule_push_down_selections">> =>
      /\ JoinCondOverCross =>
            /\ result.kind = "Select" /\ result.cond = tree.cond
            /\ result.input.kind = "Cross"
            /\ CondsIn(result.input) = CondsIn(tree.input)
      /\ OuterOverJoinCond =>
            LET cross == tree.input.input
                onleft == can_push_down(tree.cond, cross.left, OptDd)
            IN  /\ result.kind = "Select" /\ result.cond = tree.input.cond
                /\ result.input.kind = "Cross"
                /\ CondsIn(result.input.left) =
                     CondsIn(cross.left) \cup (IF onleft THEN {tree.cond} ELSE {})
                /\ CondsIn(result.input.right) =
                     CondsIn(cross.right) \cup (IF onleft THEN {} ELSE {tree.cond})

\* C17 witness: the rule has pushed an outer condition past a join condition
\* that stayed above the Cross
C17_Witness ==
    /\ applied = <<"rule_push_down_selections">>
    /\ OuterOverJoinCond
    /\ result.kind = "Select" /\ result.cond = tree.input.cond
    /\ tree.cond \in CondsIn(result.input)

\* t is a Select directly above a Cross and the relation prefixes of its
\* condition intersect the relation names of both inputs of the Cross
SpansBothSides(t) ==
    /\ t.kind = "Select" /\ t.input.kind = "Cross"
    /\ extract_condition_prefixes(t.cond) \cap extract_relations(t.input.left) # {}
    /\ extract_condition_prefixes(t.cond) \cap extract_relations(t.input.right) # {}

RECURSIVE CountKind(_, _)
\* the number of nodes of one kind in a tree
CountKind(kind, t) ==
    (IF t.kind = kind THEN 1 ELSE 0)
    + CASE t.kind = "RelRef" -> 0
        [] t.kind \in {"Select", "Project", "Rename"} -> CountKind(kind, t.input)
        [] OTHER -> CountKind(kind, t.left) + CountKind(kind, t.right)

RECURSIVE CountSpanning(_)
\* the number of Select nodes of a tree that span both sides of their Cross
CountSpanning(t) ==
    (IF SpansBothSides(t) THEN 1 ELSE 0)
    + CASE t.kind = "RelRef" -> 0
        [] t.kind \in {"Select", "Project", "Rename"} -> CountSpanning(t.input)
        [] OTHER -> CountSpanning(t.left) + CountSpanning(t.right)

\* the last rule applied is rule_introduce_joins; argtree is its argument
IntroducedJoins ==
    applied # <<>> /\ applied[Len(applied)] = "rule_introduce_joins"

\* C18: rule_introduce_joins turns Select(c, Cross(L, R)) into a Join on c
\* exactly when the relation prefixes of c intersect the relation names of
\* both L and R; every other Select and Cross is kept, and the result has
\* no Select directly above a Cross whose condition spans both sides.
C18_JoinExactlyWhenSpanning ==
    IntroducedJoins =>
      /\ (argtree.kind = "Select" /\ argtree.input.kind = "Cross") =>
            IF SpansBothSides(argtree)
            THEN /\ result.kind = "Join" /\ result.cond = argtree.cond
                 /\ extract_relations(result.left) =
                      extract_relations(argtree.input.left)
                 /\ extract_relations(result.right) =
                      extract_relations(argtree.input.right)
            ELSE /\ result.kind = "Select" /\ result.cond = argtree.cond
                 /\ result.input.kind = "Cross"
      /\ CountKind("Join", result) =
           CountKind("Join", argtree) + CountSpanning(argtree)
      /\ CountKind("Cross", result) =
           CountKind("Cross", argtree) - CountSpanning(argtree)
      /\ CountKind("Select", result) =
           CountKind("Select", argtree) - CountSpanning(argtree)
      /\ \A t \in Nodes(result) : ~SpansBothSides(t)

\* C18 witness: the rule has turned a Select over a Cross into a Join
C18_Witness ==
    /\ IntroducedJoins
    /\ SpansBothSides(argtree)
    /\ result.kind = "Join" /\ result.cond = argtree.cond

\* pruned is a Project the rule put directly above branch
InsertedAbove(pruned, branch) ==
    pruned # branch /\ pruned.kind = "Project" /\ pruned.input = branch

\* the Project inserted above branch keeps fewer columns than branch produces
KeepsFewer(pruned, branch) ==
    Cardinality(OutputKeys(pruned, OptDd)) < Cardinality(OutputKeys(branch, OptDd))

\* C19: on Project(attrs, Join(L, c, R)) rule_push_down_projections keeps the
\* outer Project with its attribute list directly above the Join, and a
\* Project it inserts under the Join keeps strictly fewer columns than the
\* branch below it produces; a tree of another shape keeps its root.
C19_InsertedProjectPrunes ==
    applied = <<"rule_push_down_projections">> =>
      IF tree.kind = "Project" /\ tree.input.kind = "Join"
      THEN /\ result.kind = "Project" /\ result.attrs = tree.attrs
           /\ result.input.kind = "Join" /\ result.input.cond = tree.input.cond
           /\ InsertedAbove(result.input.left, argtree.input.left) =>
                 KeepsFewer(result.input.left, argtree.input.left)
           /\ InsertedAbove(result.input.right, argtree.input.right) =>
                 KeepsFewer(result.input.right, argtree.input.right)
      ELSE result.kind = tree.kind

====
